---- MODULE Spec2Model ----
(***************************************************************************)
(* The orchestration engine of the P vs NP autonomous solver               *)
(* (src/index.tsx): the cycle scheduler (toggleAutonomousSearch,           *)
(* runSearchCycle, stopSearch), the specialist phase, the architect tool   *)
(* loop (runArchitectStep), the application of the final payload           *)
(* (parseAndApplyArchitectResponse), the agent registry (deployNewAgent,   *)
(* retireAgent, checkAgentLifecycles) and persistence (saveStateToDB,      *)
(* loadStateFromDB, clearAllNotebooks).                                    *)
(*                                                                         *)
(* JavaScript runs one task at a time: an action below is the code that    *)
(* runs from one real suspension point (a network call, an IndexedDB       *)
(* request, a timer, a click) to the next.  `await addLogEntry(...)` never *)
(* leaves the microtask queue, so no click, timer or response is handled   *)
(* there and it is no boundary between actions.                            *)
(***************************************************************************)
EXTENDS Integers, Sequences, FiniteSets, TLC

(***************************************************************************)
(* Bounds of the model.                                                    *)
(***************************************************************************)
\* cycle bodies (runSearchCycle past its guard) begun in one behaviour
MaxCycles == 3
\* tool rounds answered in one behaviour
MaxRounds == 1
\* nodes inserted between two resets
MaxNodes == 3
\* the same two budgets where every tool of the architect is exercised
ToolsCycles == 2
ToolsRounds == 2
\* and where missions are saved, reloaded and restarted
MissionCycles == 2
MissionRounds == 1
\* and for the first cycles after a start from the fresh state
EndToEndCycles == 2
\* for sequences of applied payloads
PayloadCycles == 3
\* for graphs built from payloads whose nodes have relations
GraphCycles == 3
\* the bias detector: the longest focus history a mission starts with,
\* and the cycle bodies begun from there
MaxHistory == 7
BiasCycles == 2
\* the semantic search: cycle bodies begun, and the most vectors the index
\* of a mission holds
SearchCycles == 1
MaxVectors == 4
\* the tool loop on batches: cycle bodies begun, tool rounds answered
BatchCycles == 1
BatchRounds == 2
\* cycle bodies begun where saves and embeddings may fail
FaultCycles == 2
\* Cycles and tool rounds of the runs that follow the architect's tool loop.
LoopCycles == 2
LoopRounds == 3
\* Cycles of the runs around the chaos intervention, and how far below the
\* threshold their stagnation counter starts.
ChaosCycles == 2
\* Cycles and tool rounds of the runs with formal verifications, and the longest
\* proof text of the table of success chances.
VerifyCycles == 2
VerifyRounds == 2
MaxProofLength == 1200
StagnationSpan == 2
\* a temporary agent over its lifespan: cycle bodies begun, tool rounds
\* answered, and the lifespan the agent is deployed with
LifespanCycles == 3
LifespanRounds == 1
DeployedLifespan == 2
\* the lifecycle check: cycle bodies begun, and the largest cycle counter
\* and lifespan a mission starts the check with
LifecycleCycles == 2
MaxCycleCounter == 4
MaxLifespan == 4

(***************************************************************************)
(* Program constants.                                                      *)
(***************************************************************************)
SeedAgents ==
  <<"specialist-1", "specialist-2", "specialist-3",
    "specialist-4", "specialist-5", "specialist-6">>

\* For C28: no agent is reactive-only, under which
\* C28_ReactiveAgentsAreNotRun has to fail.
NoReactiveAgents == {}

ReactiveAgents == {"specialist-5", "specialist-6"}

InitialObjective == "Awaiting directive from Metacognitive Architect..."
LoadedObjectiveDefault == "Awaiting directive from Lead Synthesizer..."
InitialResearchVector == "Awaiting strategic plan..."
TerminalMarker == "PROOF COMPLETE:"

\* The absent snapshot (db.get returns undefined).
NoSnapshot == [present |-> FALSE]

(***************************************************************************)
(* Text helpers: the string methods the code uses, on TLA+ strings.        *)
(***************************************************************************)
Range(s) == {s[i] : i \in DOMAIN s}

\* String.prototype.startsWith
StartsWith(s, prefix) ==
  /\ Len(prefix) <= Len(s)
  /\ SubSeq(s, 1, Len(prefix)) = prefix

\* String.prototype.includes
Includes(s, part) ==
  \E i \in 1..(Len(s) + 1) :
     /\ i + Len(part) - 1 <= Len(s)
     /\ SubSeq(s, i, i + Len(part) - 1) = part

\* String.prototype.substring(0, n)
Substring0(s, n) == IF Len(s) <= n THEN s ELSE SubSeq(s, 1, n)

\* String.prototype.indexOf for a one-character needle; 0 when absent
\* (JavaScript's -1), positions counted from 1.
IndexOfChar(s, ch) ==
  LET hits == {i \in 1..Len(s) : SubSeq(s, i, i) = ch}
  IN  IF hits = {} THEN 0 ELSE CHOOSE i \in hits : \A j \in hits : i <= j

\* rel.split(':') destructured as [action, targetId]: the text before the
\* first colon, and the text between the first and the second colon
\* ("" stands for JavaScript's undefined when there is no colon).
RelAction(rel) ==
  LET k == IndexOfChar(rel, ":")
  IN  IF k = 0 THEN rel ELSE SubSeq(rel, 1, k - 1)

RelTarget(rel) ==
  LET k == IndexOfChar(rel, ":")
      rest == IF k = 0 THEN "" ELSE SubSeq(rel, k + 1, Len(rel))
      k2 == IndexOfChar(rest, ":")
  IN  IF k2 = 0 THEN rest ELSE SubSeq(rest, 1, k2 - 1)

\* String.prototype.toUpperCase on the relation actions the oracle uses.
ToUpperCase(a) ==
  CASE a = "refutes" -> "REFUTES"
    [] a = "invalidates" -> "INVALIDATES"
    [] a = "supports" -> "SUPPORTS"
    [] OTHER -> a

\* node.type.charAt(0)
CharAt0(s) == IF Len(s) = 0 THEN "" ELSE SubSeq(s, 1, 1)

(***************************************************************************)
(* Maps (JavaScript Map) as functions with a growing domain.               *)
(***************************************************************************)
MapSet(m, k, v) == [x \in (DOMAIN m) \cup {k} |-> IF x = k THEN v ELSE m[x]]

MapDelete(m, k) == [x \in (DOMAIN m) \ {k} |-> m[x]]

EmptyMap == [x \in {} |-> 0]

\* Array.prototype.filter
RECURSIVE FilterOut(_, _)
FilterOut(s, drop) ==
  IF s = <<>> THEN <<>>
  ELSE IF Head(s) \in drop THEN FilterOut(Tail(s), drop)
       ELSE <<Head(s)>> \o FilterOut(Tail(s), drop)

VARIABLES
  \* --- Knowledge Graph Store and Semantic Index
  knowledgeGraphMap,        \* the Map's values, in insertion order
  knowledgeNodeCounter,
  vectorKnowledgeBase,      \* {id, embedding} items, in insertion order
  \* --- mission text, counters, history
  currentMissionObjective,
  activeResearchVector,
  stagnationCounter,
  strategicFocusHistory,
  cycleCounter,
  finalProofContent,
  \* --- Agent Registry
  notebooks,                \* ids with a notebook (the UI representation)
  specialistPrompts,
  specialistMetadata,
  agentPerformanceMetrics,
  activeSpecialists,
  \* --- scheduler
  isSearching,
  searchIntervalId,         \* 0 is JavaScript's undefined
  armedTimers,              \* the interval timers the browser holds
  searchButtonDisabled,
  breakthroughShown,
  \* --- persistence: the one record of the object store
  store,
  \* --- asynchronous work in flight
  cycles,                   \* one record per runSearchCycle body begun
  resetPc,                  \* clearAllNotebooks(true): "idle" | "clearing"
  loader,                   \* loadStateFromDB: its position and locals
  resumeDisabled,           \* the resume button
  \* --- what the model still allows
  cyclesLeft,               \* cycle bodies that may still begin
  roundsLeft                \* tool rounds that may still be answered

kgVars == <<knowledgeGraphMap, knowledgeNodeCounter, vectorKnowledgeBase>>
missionVars ==
  <<currentMissionObjective, activeResearchVector, stagnationCounter,
    strategicFocusHistory, cycleCounter, finalProofContent>>
registryVars ==
  <<notebooks, specialistPrompts, specialistMetadata,
    agentPerformanceMetrics, activeSpecialists>>
schedVars ==
  <<isSearching, searchIntervalId, armedTimers, searchButtonDisabled,
    breakthroughShown>>
vars ==
  <<kgVars, missionVars, registryVars, schedVars, store, cycles, resetPc,
    loader, resumeDisabled, cyclesLeft, roundsLeft>>


(***************************************************************************)
(* Agent Registry & Lifecycle Manager.  The five collections travel as one *)
(* record so that a handler can apply several operations in a row.         *)
(***************************************************************************)
\* lifespan_cycles: number | null
NullLifespan == -1

ZeroMetric == [nodesCreated |-> 0, totalPromise |-> 0]

\* The metadata the module gives the permanent agents 4, 5 and 6.
SeedMetadata ==
  [id \in {"specialist-4", "specialist-5", "specialist-6"} |->
     [required_tools |-> IF id = "specialist-4"
                         THEN <<"perform_web_search">> ELSE <<>>,
      lifespan_cycles |-> NullLifespan,
      creationCycle |-> 0]]

Registry ==
  [nb |-> notebooks, prompts |-> specialistPrompts,
   meta |-> specialistMetadata, metrics |-> agentPerformanceMetrics,
   active |-> activeSpecialists]

SetRegistry(r) ==
  /\ notebooks' = r.nb
  /\ specialistPrompts' = r.prompts
  /\ specialistMetadata' = r.meta
  /\ agentPerformanceMetrics' = r.metrics
  /\ activeSpecialists' = r.active

\* For C15: a retirement that keeps the metric of the agent, under which
\* C15_RetireRemovesAgent has to fail.
retireAgentKeepsMetric(r, id) ==
  [nb |-> r.nb \ {id},
   prompts |-> MapDelete(r.prompts, id),
   meta |-> MapDelete(r.meta, id),
   metrics |-> r.metrics,
   active |-> FilterOut(r.active, {id})]

retireAgent(r, id) ==
  [nb |-> r.nb \ {id},
   prompts |-> MapDelete(r.prompts, id),
   meta |-> MapDelete(r.meta, id),
   metrics |-> MapDelete(r.metrics, id),
   active |-> FilterOut(r.active, {id})]

RECURSIVE RetireAll(_, _)
RetireAll(r, ids) ==
  IF ids = <<>> THEN r ELSE RetireAll(retireAgent(r, Head(ids)), Tail(ids))

\* creationCycle is the cycle counter at the time of the call.
deployNewAgent(r, id, missionPrompt, required_tools, lifespan_cycles, cycle) ==
  IF id \in r.nb THEN r
  ELSE [nb |-> r.nb \cup {id},
        prompts |-> MapSet(r.prompts, id, missionPrompt),
        meta |-> MapSet(r.meta, id,
                        [required_tools |-> required_tools,
                         lifespan_cycles |-> lifespan_cycles,
                         creationCycle |-> cycle]),
        metrics |-> MapSet(r.metrics, id, ZeroMetric),
        active |-> IF id \in Range(r.active) THEN r.active
                   ELSE Append(r.active, id)]

\* For C13: the scan with > in place of >=, under which
\* C13_ExpiredAgentsRetire has to fail.
AgentsToRetireStrict(r, cycle) ==
  LET expired(id) ==
        /\ id \in DOMAIN r.meta
        /\ r.meta[id].lifespan_cycles # NullLifespan
        /\ cycle - r.meta[id].creationCycle > r.meta[id].lifespan_cycles
  IN  FilterOut(r.active, {id \in Range(r.active) : ~expired(id)})

\* The ids the scan of the active set queues for retirement.
AgentsToRetire(r, cycle) ==
  LET expired(id) ==
        /\ id \in DOMAIN r.meta
        /\ r.meta[id].lifespan_cycles # NullLifespan
        /\ cycle - r.meta[id].creationCycle >= r.meta[id].lifespan_cycles
  IN  FilterOut(r.active, {id \in Range(r.active) : ~expired(id)})

checkAgentLifecycles(r, cycle) == RetireAll(r, AgentsToRetire(r, cycle))

\* The dynamic agents of an active list (everything but the six seeds).
DynamicAgents(active) == FilterOut(active, Range(SeedAgents))

(***************************************************************************)
(* Knowledge Graph Store.                                                  *)
(***************************************************************************)
NodeIds(g) == {g[i].id : i \in DOMAIN g}

\* Map.prototype.get; callers test membership first.
KgGet(g, id) == g[CHOOSE i \in DOMAIN g : g[i].id = id]

\* For C23: a set that drops the entries the map had, under which
\* C23_NodesAreKept has to fail.
KgSetForgets(g, node) == <<node>>

\* Map.prototype.set: a new key is appended, an existing key keeps its place.
KgSet(g, node) ==
  IF node.id \in NodeIds(g)
  THEN [i \in DOMAIN g |-> IF g[i].id = node.id THEN node ELSE g[i]]
  ELSE Append(g, node)

\* The invalidation pass of renderKnowledgeGraph.
InvalidatedIds(g) ==
  {RelTarget(g[i].relations[j]) :
     <<i, j>> \in {p \in (DOMAIN g) \X (1..MaxNodes + 2) :
                     /\ p[2] \in DOMAIN g[p[1]].relations
                     /\ ToUpperCase(RelAction(g[p[1]].relations[p[2]]))
                          \in {"INVALIDATES", "REFUTES"}}}

renderKnowledgeGraph(g) ==
  [i \in DOMAIN g |->
     [g[i] EXCEPT !.invalidated =
        IF g[i].id \in InvalidatedIds(g) THEN "true" ELSE "false"]]

(***************************************************************************)
(* Semantic Index.  Components of vectors are integers; a cosine           *)
(* similarity s is held as the fraction n/d = s * |s|, which orders and    *)
(* equates scores as s does.  With components -1, 0 and 1 in two           *)
(* dimensions two scores against one query are equal as doubles exactly    *)
(* when they are equal as reals.                                           *)
(***************************************************************************)
Abs(x) == IF x < 0 THEN -x ELSE x

RECURSIVE dotProductTo(_, _, _)
dotProductTo(vecA, vecB, i) ==
  IF i = 0 THEN 0
  ELSE dotProductTo(vecA, vecB, i - 1) + vecA[i] * vecB[i]

dotProduct(vecA, vecB) == dotProductTo(vecA, vecB, Len(vecA))

\* magnitude(vec) squared
magnitude2(vec) == dotProduct(vec, vec)

ZeroScore == [n |-> 0, d |-> 1]

cosineSimilarity(vecA, vecB) ==
  IF Len(vecA) # Len(vecB) THEN ZeroScore
  ELSE IF magnitude2(vecA) = 0 \/ magnitude2(vecB) = 0 THEN ZeroScore
  ELSE [n |-> dotProduct(vecA, vecB) * Abs(dotProduct(vecA, vecB)),
        d |-> magnitude2(vecA) * magnitude2(vecB)]

ScoreLess(s, t) == s.n * t.d < t.n * s.d
ScoreEqual(s, t) == s.n * t.d = t.n * s.d

\* For C19: a comparator that also moves an item behind one of equal
\* score, under which C19_QueryRanksBySimilarity has to fail.
CompareScoresSwapsTies(a, b) == ~ScoreLess(b.score, a.score)

\* (a, b) => b.score - a.score is positive: a goes behind b.
CompareScores(a, b) == ScoreLess(a.score, b.score)

\* Array.prototype.sort is stable: an item goes behind the items the
\* comparator does not put it in front of.
RECURSIVE InsertSorted(_, _)
InsertSorted(sorted, x) ==
  IF sorted = <<>> THEN <<x>>
  ELSE IF CompareScores(Head(sorted), x) THEN <<x>> \o sorted
  ELSE <<Head(sorted)>> \o InsertSorted(Tail(sorted), x)

RECURSIVE SortScores(_)
SortScores(scores) ==
  IF scores = <<>> THEN <<>>
  ELSE InsertSorted(SortScores(SubSeq(scores, 1, Len(scores) - 1)),
                    scores[Len(scores)])

\* performSemanticSearch once getEmbedding has returned (ok: with the
\* vector queryEmbedding); the ids of the nodes it returns.
performSemanticSearch(ok, queryEmbedding, k, base, graph) ==
  IF base = <<>> \/ ~ok THEN <<>>
  ELSE LET scores == [i \in DOMAIN base |->
                        [id |-> base[i].id,
                         score |-> cosineSimilarity(queryEmbedding,
                                                    base[i].embedding)]]
           sorted == SortScores(scores)
           topK == SubSeq(sorted, 1, IF k < Len(sorted) THEN k
                                     ELSE Len(sorted))
       IN  SelectSeq([i \in DOMAIN topK |-> topK[i].id],
                     LAMBDA id : id \in {graph[i].id : i \in DOMAIN graph})

\* `${node.type.charAt(0)}${knowledgeNodeCounter++}`
NewNodeId(type, counter) == CharAt0(type) \o ToString(counter)

(***************************************************************************)
(* Persistence Manager: the MissionState record saveStateToDB writes.      *)
(***************************************************************************)
MissionState ==
  [present |-> TRUE,
   knowledgeGraph |-> knowledgeGraphMap,
   knowledgeNodeCounter |-> knowledgeNodeCounter,
   cycleCounter |-> cycleCounter,
   stagnationCounter |-> stagnationCounter,
   currentMissionObjective |-> currentMissionObjective,
   activeResearchVector |-> activeResearchVector,
   activeSpecialists |-> activeSpecialists,
   specialistPrompts |-> specialistPrompts,
   specialistMetadata |-> specialistMetadata,
   strategicFocusHistory |-> strategicFocusHistory,
   agentPerformanceMetrics |-> agentPerformanceMetrics]

(***************************************************************************)
(* The state once the module has been evaluated and the start-up code has  *)
(* found no saved state and called clearAllNotebooks().                    *)
(***************************************************************************)
SeedPrompt(id) == "prompt of " \o id

\* A tool invocation (name and arguments) and the functionResponse the
\* loop feeds back: named are the ids its error text names, summary is
\* the summary of a web search.
NoCall == [name |-> "", a |-> "", b |-> "", k |-> 0]

NoResponse ==
  [name |-> "", defined |-> FALSE, success |-> FALSE, named |-> <<>>,
   verified |-> "n/a", summary |-> ""]

Response(name, success, named) ==
  [name |-> name, defined |-> TRUE, success |-> success, named |-> named,
   verified |-> "n/a", summary |-> ""]

\* The vector getEmbedding returns where its value is not looked at.
SomeEmbedding == <<1, 0>>

\* The semantic search of a specialist step: whether it has returned,
\* whether getEmbedding gave a query vector, the vector, k and the ids of
\* the nodes returned.
NoSearch ==
  [done |-> FALSE, ok |-> FALSE, query |-> <<>>, k |-> 0, related |-> <<>>]

\* The locals of a runSearchCycle body that has just begun;
\* specialistsToRun holds the ids runSpecialistStep is called for, conversation
\* holds the messages runArchitectStep has pushed behind the prompt, each
\* with the names of its functionCall or functionResponse parts.
NewCycle ==
  [pc |-> "specialists", first |-> FALSE, pending |-> FALSE, payload |-> 0,
   idx |-> 0, newNodeId |-> "", call |-> NoCall, saveOk |-> FALSE,
   stopped |-> FALSE, response |-> NoResponse, search |-> NoSearch,
   conversation |-> <<>>, specialistsToRun |-> {}, chaos |-> FALSE,
   n |-> 0]

IdleLoader == [pc |-> "idle", snap |-> NoSnapshot, nodes |-> <<>>, idx |-> 0]

FreshStart ==
  /\ knowledgeGraphMap = <<>>
  /\ knowledgeNodeCounter = 0
  /\ vectorKnowledgeBase = <<>>
  /\ currentMissionObjective = InitialObjective
  /\ activeResearchVector = InitialResearchVector
  /\ stagnationCounter = 0
  /\ strategicFocusHistory = <<>>
  /\ cycleCounter = 0
  /\ finalProofContent = ""
  /\ notebooks = Range(SeedAgents) \cup {"synthesizer"}
  /\ specialistPrompts = [id \in Range(SeedAgents) |-> SeedPrompt(id)]
  /\ specialistMetadata = SeedMetadata
  /\ agentPerformanceMetrics = [id \in Range(SeedAgents) |-> ZeroMetric]
  /\ activeSpecialists = SeedAgents
  /\ isSearching = FALSE
  /\ searchIntervalId = 0
  /\ armedTimers = {}
  /\ searchButtonDisabled = FALSE
  /\ breakthroughShown = FALSE
  /\ store = NoSnapshot
  /\ cycles = EmptyMap
  /\ resetPc = "idle"
  /\ loader = IdleLoader
  /\ resumeDisabled = TRUE

(***************************************************************************)
(* What the oracles may answer: a small, concrete set of final payloads    *)
(* and tool invocations.                                                   *)
(***************************************************************************)
Payloads ==
  << [focus |-> "ALGEBRA",
      nodes |-> << [type |-> "HYPOTHESIS", content |-> "h: circuits",
                    relations |-> <<>>, created_by |-> "specialist-1"] >>,
      vectors |-> << [description |-> "circuits", promise_score |-> 90] >>,
      stagnation_level |-> 0,
      summary |-> "progress"],
     [focus |-> "LOGIC",
      nodes |-> << [type |-> "DIRECTIVE", content |-> "d: pivot",
                    relations |-> <<>>, created_by |-> "dyn-1"],
                   [type |-> "REFUTATION", content |-> "r: gap",
                    relations |-> <<"REFUTES:H0">>,
                    created_by |-> "specialist-2"] >>,
      vectors |-> <<>>,
      stagnation_level |-> 2,
      summary |-> "stuck"],
     [focus |-> "PROOF",
      nodes |-> << [type |-> "THEOREM", content |-> "t: p # np",
                    relations |-> <<>>, created_by |-> "specialist-3"] >>,
      vectors |-> << [description |-> "t: p # np", promise_score |-> 100] >>,
      stagnation_level |-> 1,
      summary |-> "PROOF COMPLETE: qed"],
     [focus |-> "ALGEBRA",
      nodes |-> <<>>,
      vectors |-> <<>>,
      stagnation_level |-> 1,
      summary |-> "nothing new"],
     [focus |-> "constructor",
      nodes |-> <<>>,
      vectors |-> <<>>,
      stagnation_level |-> 0,
      summary |-> "types"],
     [focus |-> "LOGIC",
      nodes |-> << [type |-> "HYPOTHESIS", content |-> "h: liar",
                    relations |-> <<"REFUTES:H0">>,
                    created_by |-> "specialist-1"] >>,
      vectors |-> <<>>,
      stagnation_level |-> 0,
      summary |-> "paradox"] >>

\* result.text of a response without function calls; "undefined" is the
\* absent text.  "{k}" is the JSON text of Payloads[k]; ''' is the code
\* fence.
FinalTexts ==
  {"undefined", "{1}", "'''json{2}'''", "Here it is: {1} Done.", "{3}",
   "{4}", "{5}", "{6}", "{1", "no json at all"}

\* JSON.parse: the index of the payload, 0 when it throws.
JsonParse(jsonStr) ==
  LET hits == {k \in DOMAIN Payloads : jsonStr = "{" \o ToString(k) \o "}"}
  IN  IF hits = {} THEN 0 ELSE CHOOSE k \in hits : TRUE

\* String.prototype.lastIndexOf for a one-character needle; 0 when absent.
LastIndexOfChar(s, ch) ==
  LET hits == {i \in 1..Len(s) : SubSeq(s, i, i) = ch}
  IN  IF hits = {} THEN 0 ELSE CHOOSE i \in hits : \A j \in hits : i >= j

\* String.prototype.endsWith
EndsWith(s, suffix) ==
  /\ Len(suffix) <= Len(s)
  /\ SubSeq(s, Len(s) - Len(suffix) + 1, Len(s)) = suffix

\* The code-fence marker: three backquotes in the code, written with
\* apostrophes here because a TLA+ string holds no backquote.
Fence == "'''"

\* The recovery heuristic of runArchitectStep: strip a leading fence with
\* "json" and a trailing fence, then keep the text from the first { to
\* the last }.
RecoverJson(text) ==
  LET s1 == IF StartsWith(text, Fence \o "json")
            THEN LET t == SubSeq(text, 8, Len(text))
                 IN  IF EndsWith(t, Fence) THEN SubSeq(t, 1, Len(t) - 3)
                     ELSE t
            ELSE text
      firstBrace == IndexOfChar(s1, "{")
      lastBrace == LastIndexOfChar(s1, "}")
  IN  IF firstBrace # 0 /\ lastBrace > firstBrace
      THEN SubSeq(s1, firstBrace, lastBrace)
      ELSE s1

\* The payload a final text yields: 0 when the phase throws (no text, or
\* JSON.parse throws after the heuristic).
ParseFinal(text) ==
  IF text = "undefined" THEN 0 ELSE JsonParse(RecoverJson(text))

\* summary.trim().startsWith('PROOF COMPLETE:')
\* A test that takes no summary for the terminal marker.
IsTerminalNever(payload) == FALSE

IsTerminal(payload) == StartsWith(payload.summary, TerminalMarker)

NodeArgs == {"H0", "X9"}

ToolCalls ==
  [name : {"invoke_intuitionist"}, a : NodeArgs, b : NodeArgs, k : {0}]
  \cup
  [name : {"challenge_with_skeptic"}, a : NodeArgs, b : {""}, k : {0}]
  \cup
  [name : {"deploy_new_specialist_agent"}, a : {"dyn-1", "specialist-2"},
   b : {""}, k : {1, NullLifespan}]
  \cup
  [name : {"request_formal_verification"}, a : NodeArgs, b : {""},
   k : {0, 500}]
  \cup
  [name : {"retire_agent"}, a : {"specialist-1", "dyn-1", "ghost"},
   b : {""}, k : {0}]
  \cup
  [name : {"modify_agent_prompt"}, a : {"specialist-2", "ghost"},
   b : {""}, k : {0}]
  \cup
  [name : {"request_peer_review"}, a : {"specialist-2", "ghost"},
   b : {"specialist-1"}, k : {0}]
  \cup
  [name : {"execute_python_code", "perform_web_search", "summon_oracle"},
   a : {""}, b : {""}, k : {0}]


(***************************************************************************)
(* Cycle records: the runSearchCycle bodies in flight, by an id of the     *)
(* model.  A body is at one of                                             *)
(*   "specialists"  Promise.all over the specialist steps                  *)
(*   "architect"    a generateContent request of the tool loop             *)
(*   "oneshot"      the one-shot request of a tool effect                  *)
(*   "embedding"    getEmbedding of the node just inserted                 *)
(*   "saving"       db.put of saveStateToDB                                *)
(* and leaves the map when it returns.  first: called by                   *)
(* toggleAutonomousSearch, which awaits it; pending: specialist steps are  *)
(* outstanding; stopped: stopSearch ran while it was in flight.            *)
(***************************************************************************)
NewCycleId ==
  CHOOSE c \in 1..(Cardinality(DOMAIN cycles) + 1) : c \notin DOMAIN cycles

MarkStopped(cs) == [c \in DOMAIN cs |-> [cs[c] EXCEPT !.stopped = TRUE]]

\* window.setInterval returns an id no armed timer has.
NewTimerId ==
  CHOOSE t \in 1..(Cardinality(armedTimers) + 1) : t \notin armedTimers

\* stopSearch, but for the store and the button: cs are the cycle records
\* as the calling handler leaves them.
stopSearch(isSuccess, cs) ==
  /\ armedTimers' = armedTimers \ {searchIntervalId}
  /\ searchIntervalId' = 0
  /\ isSearching' = FALSE
  /\ breakthroughShown' = (breakthroughShown \/ isSuccess)
  /\ cycles' = MarkStopped(cs)

\* const CHAOS_INTERVENTION_THRESHOLD = 5, src/index.tsx:39.
CHAOS_INTERVENTION_THRESHOLD == 5

\* The variant of the test with a strict comparison.
ChaosInterventionAbove(counter) == counter > CHAOS_INTERVENTION_THRESHOLD

\* runArchitectStep: the prompt carries the chaos intervention text.
ChaosIntervention(counter) == counter >= CHAOS_INTERVENTION_THRESHOLD

\* runSearchCycle from its guard to `await Promise.all`: the cycle
\* counter, the lifecycle check, and every specialist step up to its
\* first request.  A step whose agent has no prompt returns at once.
BeginCycle(first) ==
  /\ cyclesLeft > 0
  /\ cyclesLeft' = cyclesLeft - 1
  /\ LET n == cycleCounter + 1
         r == checkAgentLifecycles(Registry, n)
         specialistsToRun == Range(FilterOut(r.active, ReactiveAgents))
         started == {id \in specialistsToRun :
                       id \in DOMAIN r.prompts /\ r.prompts[id] # ""}
     IN  /\ cycleCounter' = n
         /\ SetRegistry(r)
         /\ cycles' =
              MapSet(cycles, NewCycleId,
                     [NewCycle EXCEPT
                        !.pc = IF started = {} THEN "architect"
                               ELSE "specialists",
                        !.first = first,
                        !.pending = started # {},
                        !.specialistsToRun = specialistsToRun,
                        !.chaos = started = {}
                                    /\ ChaosIntervention(stagnationCounter),
                        !.n = n])
  /\ UNCHANGED <<kgVars, currentMissionObjective, activeResearchVector,
                 stagnationCounter, strategicFocusHistory,
                 finalProofContent, store, resetPc, loader, resumeDisabled,
                 roundsLeft>>

\* The controls live in the header and the main container, which the
\* breakthrough screen hides.
ControlsVisible == ~breakthroughShown

\* For C12: a start that arms the interval timer before its first cycle
\* has run, under which C12_FirstCycleEndToEnd has to fail.
ToggleStartArmsTimerFirst ==
  /\ ~searchButtonDisabled
  /\ ControlsVisible
  /\ ~isSearching
  /\ isSearching' = TRUE
  /\ searchIntervalId' = NewTimerId
  /\ armedTimers' = armedTimers \cup {NewTimerId}
  /\ BeginCycle(TRUE)
  /\ UNCHANGED <<searchButtonDisabled, breakthroughShown>>

\* toggleAutonomousSearch while idle.
ToggleStart ==
  /\ ~searchButtonDisabled
  /\ ControlsVisible
  /\ ~isSearching
  /\ isSearching' = TRUE
  /\ BeginCycle(TRUE)
  /\ UNCHANGED <<searchIntervalId, armedTimers, searchButtonDisabled,
                 breakthroughShown>>

\* toggleAutonomousSearch while searching.
ToggleStop ==
  /\ ~searchButtonDisabled
  /\ ControlsVisible
  /\ isSearching
  /\ stopSearch(FALSE, cycles)
  /\ UNCHANGED <<kgVars, missionVars, registryVars, searchButtonDisabled,
                 store, resetPc, loader, resumeDisabled, cyclesLeft,
                 roundsLeft>>

\* The interval timer calls runSearchCycle.
TimerFire(t) ==
  /\ t \in armedTimers
  /\ IF isSearching
     THEN BeginCycle(FALSE) /\ UNCHANGED schedVars
     ELSE UNCHANGED vars

\* One specialist step ends: with an output, or with its request failing
\* (the catch of runSpecialistStep calls stopSearch).  A step that returns
\* while others are outstanding changes nothing else, so the record holds
\* only whether steps are outstanding, and `last` says whether this was
\* the last one: then Promise.all resolves and runSearchCycle checks the
\* flag.
SpecialistReturns(c, ok, last) ==
  /\ c \in DOMAIN cycles
  /\ cycles[c].pc = "specialists"
  /\ LET rec == cycles[c]
         cs == IF ~last THEN [cycles EXCEPT ![c] = rec]
               ELSE IF isSearching /\ ok
                    THEN [cycles EXCEPT ![c] =
                            [rec EXCEPT !.pc = "architect", !.pending = FALSE,
                                        !.specialistsToRun = {},
                                        !.chaos =
                                          ChaosIntervention(stagnationCounter)]]
                    ELSE MapDelete(cycles, c)
     IN  IF ok
         THEN cycles' = cs /\ UNCHANGED schedVars
         ELSE stopSearch(FALSE, cs) /\ UNCHANGED searchButtonDisabled
  /\ UNCHANGED <<kgVars, missionVars, registryVars, store, resetPc, loader,
                 resumeDisabled, cyclesLeft, roundsLeft>>

(***************************************************************************)
(* parseAndApplyArchitectResponse, piece by piece.                         *)
(***************************************************************************)
\* associatedVector?.promise_score ?? 0.5, in percent
DefaultPromise == 50
\* v.description.substring(0, 50)
DescriptionPrefix == 50

PromiseOf(p, node) ==
  LET hits == {j \in DOMAIN p.vectors :
                 Includes(node.content,
                          Substring0(p.vectors[j].description,
                                     DescriptionPrefix))}
  IN  IF hits = {} THEN DefaultPromise
      ELSE p.vectors[CHOOSE j \in hits : \A i \in hits : j <= i].promise_score

NewNode(p, i, counter) ==
  LET node == p.nodes[i]
  IN  [id |-> NewNodeId(node.type, counter),
       type |-> node.type,
       content |-> node.content,
       relations |-> node.relations,
       invalidated |-> "undefined",
       verified |-> "undefined",
       createdBy |-> node.created_by,
       promiseScore |-> PromiseOf(p, node)]

CreditMetrics(metrics, node) ==
  IF node.createdBy # "" /\ node.createdBy \in DOMAIN metrics
  THEN [metrics EXCEPT ![node.createdBy] =
          [nodesCreated |-> @.nodesCreated + 1,
           totalPromise |-> @.totalPromise + node.promiseScore]]
  ELSE metrics

\* For C3: the loop body without the ++ of the node-id counter, under
\* which C3_FreshNodeIds has to fail.
InsertNodeSameCounter(p, i) ==
  LET newNode == NewNode(p, i, knowledgeNodeCounter)
  IN  /\ knowledgeGraphMap' = KgSet(knowledgeGraphMap, newNode)
      /\ knowledgeNodeCounter' = knowledgeNodeCounter
      /\ agentPerformanceMetrics' =
           CreditMetrics(agentPerformanceMetrics, newNode)

\* The loop body up to `await getEmbedding`: allocate the id, insert the
\* node, credit its author.
\* For C29: an insert that takes an id and stores no node, under which
\* C29_EmbeddingFailureIsSkipped has to fail.
InsertNodeSkips(p, i) ==
  /\ knowledgeGraphMap' = knowledgeGraphMap
  /\ knowledgeNodeCounter' = knowledgeNodeCounter + 1
  /\ agentPerformanceMetrics' = agentPerformanceMetrics

InsertNode(p, i) ==
  LET newNode == NewNode(p, i, knowledgeNodeCounter)
  IN  /\ knowledgeGraphMap' = KgSet(knowledgeGraphMap, newNode)
      /\ knowledgeNodeCounter' = knowledgeNodeCounter + 1
      /\ agentPerformanceMetrics' =
           CreditMetrics(agentPerformanceMetrics, newNode)

\* The description of the first vector with the highest promise score.
BestVector(p) ==
  LET best == {j \in DOMAIN p.vectors :
                 /\ p.vectors[j].promise_score > -1
                 /\ \A i \in DOMAIN p.vectors :
                      \/ p.vectors[i].promise_score < p.vectors[j].promise_score
                      \/ (p.vectors[i].promise_score = p.vectors[j].promise_score
                          /\ j <= i)}
  IN  IF best = {} THEN "" ELSE p.vectors[CHOOSE j \in best : TRUE].description

\* After the node loop: research vector, stagnation counter, re-render.
\* For C16: a tail that never resets the stagnation counter, under which
\* C16_StagnationFollowsLevel has to fail.
ApplyTailNeverResets(p, graph) ==
  /\ activeResearchVector' =
       IF BestVector(p) # "" THEN BestVector(p) ELSE activeResearchVector
  /\ stagnationCounter' =
       IF p.stagnation_level > 0 THEN stagnationCounter + 1
       ELSE stagnationCounter
  /\ knowledgeGraphMap' = renderKnowledgeGraph(graph)

ApplyTail(p, graph) ==
  /\ activeResearchVector' =
       IF BestVector(p) # "" THEN BestVector(p) ELSE activeResearchVector
  /\ stagnationCounter' =
       IF p.stagnation_level > 0 THEN stagnationCounter + 1 ELSE 0
  /\ knowledgeGraphMap' = renderKnowledgeGraph(graph)

\* runSearchCycle once runArchitectStep has returned from applying the
\* payload: check the flag, then saveStateToDB up to `await db.put`.
\* The put takes the snapshot when it is issued; saveOk says whether the
\* store accepts it.
EndOfCycle(c, rec, saveOk) ==
  IF isSearching
  THEN /\ cycles' = [cycles EXCEPT ![c] =
                       [rec EXCEPT !.pc = "saving", !.saveOk = saveOk,
                                   !.response = NoResponse,
                                   !.conversation = <<>>]]
       /\ store' = IF saveOk THEN MissionState' ELSE store
  ELSE /\ cycles' = MapDelete(cycles, c)
       /\ store' = store

\* Inserts still to come from the payloads that are being applied.
RECURSIVE PendingInserts(_, _)
PendingInserts(cs, ids) ==
  IF ids = {} THEN 0
  ELSE LET c == CHOOSE x \in ids : TRUE
       IN  (IF cs[c].pc = "embedding"
            THEN Len(Payloads[cs[c].payload].nodes) - cs[c].idx
            ELSE 0) + PendingInserts(cs, ids \ {c})

(***************************************************************************)
(* runArchitectStep.                                                       *)
(***************************************************************************)
\* Math.random() in thousandths
RandomDraws == {0, 999}

\* Math.max(0.1, 1 - complexity / 1000) in thousandths
\* The chance of a verifier without the floor of 0.1.
SuccessChanceNoFloor(complexity) == 1000 - complexity

SuccessChance(complexity) ==
  IF 1000 - complexity > 100 THEN 1000 - complexity ELSE 100

\* The ids among `ids` (in order) that the graph does not hold.
MissingNodes(ids, graph) == FilterOut(ids, NodeIds(graph))

\* The catch of runArchitectStep: stopSearch, and runSearchCycle returns.
ArchitectCatch(c) ==
  /\ stopSearch(FALSE, MapDelete(cycles, c))
  /\ UNCHANGED <<kgVars, missionVars, registryVars, searchButtonDisabled,
                 store, resetPc, loader, resumeDisabled, cyclesLeft,
                 roundsLeft>>

\* NextRequest without the second generateContent: the tool message is pushed
\* and no further response is ever awaited.
NextRequestNeverSent(c, rec, response) ==
  cycles' = [cycles EXCEPT ![c] =
               [rec EXCEPT !.pc = "unsent", !.call = NoCall,
                           !.response = response,
                           !.conversation =
                              Append(@, [role |-> "tool",
                                         parts |-> <<response.name>>])]]

\* Feed a functionResponse back and send the next request of the loop.
NextRequest(c, rec, response) ==
  cycles' = [cycles EXCEPT ![c] =
               [rec EXCEPT !.pc = "architect", !.call = NoCall,
                           !.response = response,
                           !.conversation =
                              Append(@, [role |-> "tool",
                                         parts |-> <<response.name>>])]]

\* A request of the tool loop is rejected, or its answer has no function
\* call and no usable text: absent, or unparseable after the heuristic.
ArchitectFails(c, text) ==
  /\ c \in DOMAIN cycles
  /\ cycles[c].pc = "architect"
  /\ text = "error" \/ ParseFinal(text) = 0
  /\ ArchitectCatch(c)

\* The answer holds function calls: the effect of the first one.
\* For C20: a round that acts on the last invocation of the batch, under
\* which C20_OneToolEffectPerRound has to fail.
LastCall(functionCalls) == functionCalls[Len(functionCalls)]

\* const call = result.functionCalls[0]
FirstCall(functionCalls) == functionCalls[1]

\* One round of the tool loop on the batch result.functionCalls.
ArchitectToolBatch(c, functionCalls, random) ==
  /\ c \in DOMAIN cycles
  /\ cycles[c].pc = "architect"
  /\ functionCalls # <<>>
  /\ roundsLeft > 0
  /\ roundsLeft' = roundsLeft - 1
  /\ LET call == FirstCall(functionCalls)
         rec == [cycles[c] EXCEPT
                   !.call = call, !.response = NoResponse,
                   !.conversation =
                      Append(@, [role |-> "model",
                                 parts |-> [i \in DOMAIN functionCalls |->
                                              functionCalls[i].name]])]
         ok(named) == Response(call.name, TRUE, named)
         missing ==
           MissingNodes(IF call.name = "invoke_intuitionist"
                        THEN <<call.a, call.b>> ELSE <<call.a>>,
                        knowledgeGraphMap)
     IN  CASE call.name \in {"invoke_intuitionist", "challenge_with_skeptic"} ->
                /\ IF missing # <<>>
                   THEN NextRequest(c, rec,
                                    Response(call.name, FALSE, missing))
                   ELSE cycles' = [cycles EXCEPT ![c] =
                                     [rec EXCEPT !.pc = "oneshot"]]
                /\ UNCHANGED <<kgVars, registryVars>>
           [] call.name = "deploy_new_specialist_agent" ->
                /\ SetRegistry(deployNewAgent(Registry, call.a,
                                              "mission of " \o call.a,
                                              <<>>, call.k, cycleCounter))
                /\ NextRequest(c, rec, ok(<<>>))
                /\ UNCHANGED kgVars
           [] call.name = "request_formal_verification" ->
                LET success == missing = <<>>
                                 /\ random < SuccessChance(call.k)
                IN  /\ knowledgeGraphMap' =
                         IF missing = <<>>
                         THEN renderKnowledgeGraph(
                                KgSet(knowledgeGraphMap,
                                      [KgGet(knowledgeGraphMap, call.a)
                                         EXCEPT !.verified =
                                           IF success THEN "true"
                                           ELSE "false"]))
                         ELSE knowledgeGraphMap
                    /\ NextRequest(c, rec,
                                   [ok(<<>>) EXCEPT !.verified =
                                      IF success THEN "true" ELSE "false"])
                    /\ UNCHANGED <<knowledgeNodeCounter, vectorKnowledgeBase,
                                   registryVars>>
           [] call.name = "execute_python_code" ->
                /\ NextRequest(c, rec, ok(<<>>))
                /\ UNCHANGED <<kgVars, registryVars>>
           [] call.name = "retire_agent" ->
                /\ SetRegistry(retireAgent(Registry, call.a))
                /\ NextRequest(c, rec, ok(<<>>))
                /\ UNCHANGED kgVars
           [] call.name = "perform_web_search" ->
                /\ cycles' = [cycles EXCEPT ![c] =
                                [rec EXCEPT !.pc = "oneshot"]]
                /\ UNCHANGED <<kgVars, registryVars>>
           [] call.name = "modify_agent_prompt" ->
                /\ specialistPrompts' =
                     MapSet(specialistPrompts, call.a, "evolved prompt")
                /\ NextRequest(c, rec, ok(<<>>))
                /\ UNCHANGED <<kgVars, notebooks, specialistMetadata,
                               agentPerformanceMetrics, activeSpecialists>>
           [] call.name = "request_peer_review" ->
                /\ IF call.a \in DOMAIN specialistPrompts
                        /\ specialistPrompts[call.a] # ""
                   THEN cycles' = [cycles EXCEPT ![c] =
                                     [rec EXCEPT !.pc = "oneshot"]]
                   ELSE NextRequest(c, rec, ok(<<>>))
                /\ UNCHANGED <<kgVars, registryVars>>
           [] OTHER ->
                \* no case of the switch: the payload stays undefined
                /\ NextRequest(c, rec, NoResponse)
                /\ UNCHANGED <<kgVars, registryVars>>
  /\ UNCHANGED <<missionVars, schedVars, store, resetPc, loader,
                 resumeDisabled, cyclesLeft>>

\* A round on a batch of one invocation.
ArchitectToolCall(c, call, random) ==
  ArchitectToolBatch(c, <<call>>, random)

\* The one-shot request of a tool effect returns.  A failed web search is
\* caught where it is made; any other failure reaches the catch of
\* runArchitectStep.
OneShotReturns(c, ok) ==
  /\ c \in DOMAIN cycles
  /\ cycles[c].pc = "oneshot"
  /\ LET rec == cycles[c]
         summary == IF rec.call.name # "perform_web_search" THEN ""
                    ELSE IF ok THEN "search result"
                    ELSE "Web search failed."
     IN  IF ok \/ rec.call.name = "perform_web_search"
         THEN /\ NextRequest(c, rec,
                             [Response(rec.call.name, TRUE, <<>>)
                                EXCEPT !.summary = summary])
              /\ UNCHANGED <<kgVars, missionVars, registryVars, schedVars,
                             store, resetPc, loader, resumeDisabled,
                             cyclesLeft, roundsLeft>>
         ELSE ArchitectCatch(c)

\* A final payload whose summary begins with the terminal marker.
ArchitectCompletes(c, text) ==
  /\ c \in DOMAIN cycles
  /\ cycles[c].pc = "architect"
  /\ ParseFinal(text) # 0
  /\ LET payload == Payloads[ParseFinal(text)]
     IN  /\ IsTerminal(payload)
         /\ finalProofContent' =
              SubSeq(payload.summary, Len(TerminalMarker) + 2,
                     Len(payload.summary))
  /\ stopSearch(TRUE, MapDelete(cycles, c))
  /\ store' = NoSnapshot
  /\ UNCHANGED <<kgVars, currentMissionObjective, activeResearchVector,
                 stagnationCounter, strategicFocusHistory, cycleCounter,
                 registryVars, searchButtonDisabled, resetPc, loader,
                 resumeDisabled, cyclesLeft, roundsLeft>>

\* Any other final payload: parseAndApplyArchitectResponse up to its first
\* `await getEmbedding`, or to its end when knowledge_update is empty.
ArchitectApplies(c, text, saveOk) ==
  /\ c \in DOMAIN cycles
  /\ cycles[c].pc = "architect"
  /\ ParseFinal(text) # 0
  /\ UNCHANGED <<vectorKnowledgeBase, currentMissionObjective, cycleCounter,
                 finalProofContent, notebooks, specialistPrompts,
                 specialistMetadata, activeSpecialists, schedVars, resetPc,
                 loader, resumeDisabled, cyclesLeft, roundsLeft>>
  /\ LET k == ParseFinal(text)
         payload == Payloads[k]
     IN  /\ ~IsTerminal(payload)
         /\ knowledgeNodeCounter + PendingInserts(cycles, DOMAIN cycles)
              + Len(payload.nodes) <= MaxNodes
         /\ strategicFocusHistory' =
              IF payload.focus # "" THEN Append(strategicFocusHistory,
                                              payload.focus)
              ELSE strategicFocusHistory
         /\ IF payload.nodes # <<>>
            THEN /\ InsertNode(payload, 1)
                 /\ cycles' = [cycles EXCEPT ![c] =
                      [@ EXCEPT !.pc = "embedding", !.payload = k,
                                !.idx = 1, !.response = NoResponse,
                                !.conversation = <<>>,
                                !.newNodeId =
                                  NewNodeId(payload.nodes[1].type,
                                            knowledgeNodeCounter)]]
                 /\ UNCHANGED <<activeResearchVector, stagnationCounter,
                                store>>
            ELSE /\ ApplyTail(payload, knowledgeGraphMap)
                 /\ UNCHANGED <<knowledgeNodeCounter,
                                agentPerformanceMetrics>>
                 /\ EndOfCycle(c, cycles[c], saveOk)

\* getEmbedding of the node just inserted returns (ok: with a vector).
\* The loop goes on to the next node, or parseAndApplyArchitectResponse
\* ends and runSearchCycle goes on.
EmbeddingReturns(c, ok, saveOk) ==
  /\ c \in DOMAIN cycles
  /\ cycles[c].pc = "embedding"
  /\ UNCHANGED <<strategicFocusHistory, cycleCounter, finalProofContent,
                 notebooks, specialistPrompts, specialistMetadata,
                 activeSpecialists, schedVars, resetPc, loader,
                 resumeDisabled, cyclesLeft, roundsLeft>>
  /\ LET rec == cycles[c]
         payload == Payloads[rec.payload]
         node == payload.nodes[rec.idx]
     IN  /\ vectorKnowledgeBase' =
              IF ok THEN Append(vectorKnowledgeBase,
                                [id |-> rec.newNodeId,
                                 embedding |-> SomeEmbedding])
              ELSE vectorKnowledgeBase
         /\ currentMissionObjective' =
              IF node.type = "DIRECTIVE" THEN node.content
              ELSE currentMissionObjective
         /\ IF rec.idx < Len(payload.nodes)
            THEN /\ InsertNode(payload, rec.idx + 1)
                 /\ cycles' = [cycles EXCEPT ![c] =
                      [rec EXCEPT !.idx = @ + 1,
                                  !.newNodeId =
                                    NewNodeId(payload.nodes[rec.idx + 1].type,
                                              knowledgeNodeCounter)]]
                 /\ UNCHANGED <<activeResearchVector, stagnationCounter,
                                store>>
            ELSE /\ ApplyTail(payload, knowledgeGraphMap)
                 /\ UNCHANGED <<knowledgeNodeCounter,
                                agentPerformanceMetrics>>
                 /\ EndOfCycle(c, [rec EXCEPT !.payload = 0, !.idx = 0,
                                              !.newNodeId = ""], saveOk)

\* db.put settles.  A rejected put throws out of runSearchCycle, and out
\* of toggleAutonomousSearch when that awaits it; otherwise
\* toggleAutonomousSearch arms the interval timer if the flag is still set.
SaveReturns(c) ==
  /\ c \in DOMAIN cycles
  /\ cycles[c].pc = "saving"
  /\ cycles' = MapDelete(cycles, c)
  /\ IF cycles[c].first /\ cycles[c].saveOk /\ isSearching
     THEN /\ searchIntervalId' = NewTimerId
          /\ armedTimers' = armedTimers \cup {NewTimerId}
     ELSE UNCHANGED <<searchIntervalId, armedTimers>>
  /\ UNCHANGED <<kgVars, missionVars, registryVars, isSearching,
                 searchButtonDisabled, breakthroughShown, store, resetPc,
                 loader, resumeDisabled, cyclesLeft, roundsLeft>>

(***************************************************************************)
(* clearAllNotebooks(true): the new-mission reset.                         *)
(***************************************************************************)
\* Up to `await db.clear`: the breakthrough screen is hidden and the clear
\* is issued.
clearAllNotebooksBegin ==
  /\ resetPc = "idle"
  /\ resetPc' = "clearing"
  /\ breakthroughShown' = FALSE
  /\ store' = NoSnapshot
  /\ UNCHANGED <<kgVars, missionVars, registryVars, isSearching,
                 searchIntervalId, armedTimers, searchButtonDisabled, cycles,
                 loader, resumeDisabled, cyclesLeft, roundsLeft>>

\* A handler of new-btn that does not look at isSearching.
NewMissionClickWhileRunning ==
  /\ ControlsVisible
  /\ clearAllNotebooksBegin

\* The click handler of new-btn (the confirmation accepted, or a proof held);
\* while the scheduler is running it only shows an alert.
NewMissionClick ==
  /\ ControlsVisible
  /\ IF ~isSearching THEN clearAllNotebooksBegin
     ELSE UNCHANGED vars

\* The click handler of restart-btn-breakthrough.
RestartClick ==
  /\ breakthroughShown
  /\ clearAllNotebooksBegin

\* After `await db.clear`: the rest of clearAllNotebooks.
clearAllNotebooksFinish ==
  /\ resetPc = "clearing"
  /\ resetPc' = "idle"
  /\ resumeDisabled' = TRUE
  /\ LET r == RetireAll(Registry, DynamicAgents(activeSpecialists))
     IN  SetRegistry([r EXCEPT
                        !.metrics = [id \in Range(SeedAgents) |-> ZeroMetric],
                        !.active = SeedAgents])
  /\ finalProofContent' = ""
  /\ knowledgeGraphMap' = <<>>
  /\ vectorKnowledgeBase' = <<>>
  /\ knowledgeNodeCounter' = 0
  /\ cycleCounter' = 0
  /\ stagnationCounter' = 0
  /\ strategicFocusHistory' = <<>>
  /\ currentMissionObjective' = InitialObjective
  /\ activeResearchVector' = InitialResearchVector
  /\ searchButtonDisabled' = FALSE
  /\ UNCHANGED <<isSearching, searchIntervalId, armedTimers,
                 breakthroughShown, store, cycles, loader, cyclesLeft,
                 roundsLeft>>

(***************************************************************************)
(* loadStateFromDB.                                                        *)
(***************************************************************************)
\* x || d on a string
OrDefault(x, d) == IF x = "" THEN d ELSE x

\* loadedNodes.forEach(node => knowledgeGraphMap.set(node.id, node))
RECURSIVE SetAll(_, _)
SetAll(g, nodes) ==
  IF nodes = <<>> THEN g ELSE SetAll(KgSet(g, Head(nodes)), Tail(nodes))

\* The loop that gives every loaded active id without a notebook its
\* column, through deployNewAgent.
RECURSIVE DeployLoaded(_, _, _)
DeployLoaded(r, ids, cycle) ==
  IF ids = <<>> THEN r
  ELSE LET id == Head(ids)
           hasMeta == id \in DOMAIN r.meta
           next ==
             IF id \in r.nb THEN r
             ELSE deployNewAgent(
                    r, id,
                    IF id \in DOMAIN r.prompts THEN r.prompts[id]
                    ELSE "Loaded Agent",
                    IF hasMeta THEN r.meta[id].required_tools ELSE <<>>,
                    IF hasMeta THEN r.meta[id].lifespan_cycles
                    ELSE NullLifespan,
                    cycle)
       IN  DeployLoaded(next, Tail(ids), cycle)

\* The click handler of resume-btn up to `await db.get`.
ResumeClick ==
  /\ ~resumeDisabled
  /\ ControlsVisible
  /\ ~isSearching
  /\ loader.pc = "idle"
  /\ loader' = [IdleLoader EXCEPT !.pc = "getting", !.snap = store]
  /\ UNCHANGED <<kgVars, missionVars, registryVars, schedVars, store, cycles,
                 resetPc, resumeDisabled, cyclesLeft, roundsLeft>>

\* db.get has answered: nothing saved, or the restore up to the first
\* `await getEmbedding` of rebuildKnowledgeBaseVectors (to its end when
\* the snapshot has no node).
loadStateFromDB ==
  /\ loader.pc = "getting"
  /\ IF ~loader.snap.present
     THEN /\ loader' = IdleLoader
          /\ UNCHANGED <<kgVars, missionVars, registryVars, schedVars, cycles>>
     ELSE LET s == loader.snap
              r0 == RetireAll(Registry, DynamicAgents(activeSpecialists))
              r1 == [nb |-> r0.nb,
                     prompts |-> s.specialistPrompts,
                     meta |-> s.specialistMetadata,
                     metrics |-> s.agentPerformanceMetrics,
                     active |-> s.activeSpecialists]
          IN  /\ stopSearch(FALSE, cycles)
              /\ knowledgeGraphMap' =
                   renderKnowledgeGraph(SetAll(<<>>, s.knowledgeGraph))
              /\ knowledgeNodeCounter' = s.knowledgeNodeCounter
              /\ cycleCounter' = s.cycleCounter
              /\ stagnationCounter' = s.stagnationCounter
              /\ currentMissionObjective' =
                   OrDefault(s.currentMissionObjective, LoadedObjectiveDefault)
              /\ activeResearchVector' =
                   OrDefault(s.activeResearchVector, InitialResearchVector)
              /\ strategicFocusHistory' = s.strategicFocusHistory
              /\ SetRegistry(DeployLoaded(r1, r1.active, s.cycleCounter))
              /\ vectorKnowledgeBase' = <<>>
              /\ IF s.knowledgeGraph = <<>>
                 THEN loader' = IdleLoader
                 ELSE loader' =
                        [pc |-> "rebuilding", snap |-> NoSnapshot,
                         nodes |-> [i \in DOMAIN s.knowledgeGraph |->
                                      s.knowledgeGraph[i].id],
                         idx |-> 1]
              /\ UNCHANGED finalProofContent
  /\ IF loader.snap.present /\ loader.snap.knowledgeGraph # <<>>
     THEN searchButtonDisabled' = TRUE
     ELSE IF loader.snap.present THEN searchButtonDisabled' = FALSE
     ELSE UNCHANGED searchButtonDisabled
  /\ UNCHANGED <<store, resetPc, resumeDisabled, cyclesLeft, roundsLeft>>

\* getEmbedding of rebuildKnowledgeBaseVectors returns (ok: with a vector).
RebuildEmbeddingReturns(ok) ==
  /\ loader.pc = "rebuilding"
  /\ vectorKnowledgeBase' =
       IF ok THEN Append(vectorKnowledgeBase,
                         [id |-> loader.nodes[loader.idx],
                          embedding |-> SomeEmbedding])
       ELSE vectorKnowledgeBase
  /\ IF loader.idx < Len(loader.nodes)
     THEN /\ loader' = [loader EXCEPT !.idx = @ + 1]
          /\ UNCHANGED searchButtonDisabled
     ELSE /\ loader' = IdleLoader
          /\ searchButtonDisabled' = FALSE
  /\ UNCHANGED <<knowledgeGraphMap, knowledgeNodeCounter, missionVars,
                 registryVars, isSearching, searchIntervalId, armedTimers,
                 breakthroughShown, store, cycles, resetPc, resumeDisabled,
                 cyclesLeft, roundsLeft>>

(***************************************************************************)
(* The page is loaded again: what was in memory and in flight is gone, the *)
(* store stays, and the start-up code runs.  It enables the resume button  *)
(* when it finds a snapshot and calls clearAllNotebooks() otherwise.       *)
(***************************************************************************)
StartUp ==
  /\ knowledgeGraphMap' = <<>>
  /\ knowledgeNodeCounter' = 0
  /\ vectorKnowledgeBase' = <<>>
  /\ currentMissionObjective' = InitialObjective
  /\ activeResearchVector' = InitialResearchVector
  /\ stagnationCounter' = 0
  /\ strategicFocusHistory' = <<>>
  /\ cycleCounter' = 0
  /\ finalProofContent' = ""
  /\ notebooks' = Range(SeedAgents) \cup {"synthesizer"}
  /\ specialistPrompts' = [id \in Range(SeedAgents) |-> SeedPrompt(id)]
  /\ specialistMetadata' = SeedMetadata
  /\ agentPerformanceMetrics' =
       IF store.present THEN EmptyMap
       ELSE [id \in Range(SeedAgents) |-> ZeroMetric]
  /\ activeSpecialists' = SeedAgents
  /\ isSearching' = FALSE
  /\ searchIntervalId' = 0
  /\ armedTimers' = {}
  /\ searchButtonDisabled' = FALSE
  /\ breakthroughShown' = FALSE
  /\ resumeDisabled' = ~store.present
  /\ cycles' = EmptyMap
  /\ resetPc' = "idle"
  /\ loader' = IdleLoader
  /\ UNCHANGED <<store, cyclesLeft, roundsLeft>>

(***************************************************************************)
(* The scheduler under every interleaving of clicks, timers and answers,   *)
(* with a web search and a prompt change as the tools of the architect.    *)
(***************************************************************************)
Init ==
  /\ FreshStart
  /\ cyclesLeft = MaxCycles
  /\ roundsLeft = MaxRounds

SchedulerTexts == {"undefined", "{1}", "{3}"}

SchedulerCalls ==
  {call \in ToolCalls :
     \/ call.name = "perform_web_search"
     \/ call.name = "modify_agent_prompt" /\ call.a = "specialist-2"}

Next ==
  \/ ToggleStart
  \/ ToggleStop
  \/ \E t \in armedTimers : TimerFire(t)
  \/ \E c \in DOMAIN cycles, ok \in BOOLEAN, last \in BOOLEAN :
       SpecialistReturns(c, ok, last)
  \/ \E c \in DOMAIN cycles, text \in SchedulerTexts \cup {"error"} :
       ArchitectFails(c, text)
  \/ \E c \in DOMAIN cycles, call \in SchedulerCalls :
       ArchitectToolCall(c, call, 0)
  \/ \E c \in DOMAIN cycles, ok \in BOOLEAN : OneShotReturns(c, ok)
  \/ \E c \in DOMAIN cycles, text \in SchedulerTexts :
       ArchitectCompletes(c, text)
  \/ \E c \in DOMAIN cycles, text \in SchedulerTexts :
       ArchitectApplies(c, text, TRUE)
  \/ \E c \in DOMAIN cycles : EmbeddingReturns(c, TRUE, TRUE)
  \/ \E c \in DOMAIN cycles : SaveReturns(c)
  \/ NewMissionClick
  \/ RestartClick
  \/ clearAllNotebooksFinish

Spec == Init /\ [][Next]_vars

(***************************************************************************)
(* The tool loop with every tool of the architect, and the new-mission     *)
(* reset: one cycle at a time, every oracle call but the one-shot ones     *)
(* succeeding.                                                             *)
(***************************************************************************)
InitTools ==
  /\ FreshStart
  /\ cyclesLeft = ToolsCycles
  /\ roundsLeft = ToolsRounds

NextTools ==
  \/ ToggleStart
  \/ ToggleStop
  \/ \E t \in armedTimers : TimerFire(t)
  \/ \E c \in DOMAIN cycles : SpecialistReturns(c, TRUE, TRUE)
  \/ \E c \in DOMAIN cycles, call \in ToolCalls, random \in RandomDraws :
       ArchitectToolCall(c, call, random)
  \/ \E c \in DOMAIN cycles, ok \in BOOLEAN : OneShotReturns(c, ok)
  \/ \E c \in DOMAIN cycles : ArchitectApplies(c, "{1}", TRUE)
  \/ \E c \in DOMAIN cycles : EmbeddingReturns(c, TRUE, TRUE)
  \/ \E c \in DOMAIN cycles : SaveReturns(c)
  \/ NewMissionClick
  \/ clearAllNotebooksFinish

SpecTools == InitTools /\ [][NextTools]_vars

(***************************************************************************)
(* Missions that are saved, left, reloaded and restarted: two payloads, a  *)
(* dynamic agent, embeddings that may fail, and the page loaded again.     *)
(***************************************************************************)
InitMission ==
  /\ FreshStart
  /\ cyclesLeft = MissionCycles
  /\ roundsLeft = MissionRounds

MissionTexts == {"{1}", "'''json{2}'''"}

MissionCalls ==
  {call \in ToolCalls :
     call.name = "deploy_new_specialist_agent" /\ call.a = "dyn-1"}

NextMission ==
  \/ ToggleStart
  \/ ToggleStop
  \/ \E t \in armedTimers : TimerFire(t)
  \/ \E c \in DOMAIN cycles : SpecialistReturns(c, TRUE, TRUE)
  \/ \E c \in DOMAIN cycles, call \in MissionCalls :
       ArchitectToolCall(c, call, 0)
  \/ \E c \in DOMAIN cycles, text \in MissionTexts :
       ArchitectApplies(c, text, TRUE)
  \/ \E c \in DOMAIN cycles, ok \in BOOLEAN : EmbeddingReturns(c, ok, TRUE)
  \/ \E c \in DOMAIN cycles : SaveReturns(c)
  \/ NewMissionClick
  \/ clearAllNotebooksFinish
  \/ ResumeClick
  \/ loadStateFromDB
  \/ \E ok \in BOOLEAN : RebuildEmbeddingReturns(ok)
  \/ StartUp

SpecMission == InitMission /\ [][NextMission]_vars

(***************************************************************************)
(* What the claims speak of.                                               *)
(***************************************************************************)
\* Knowledge Graph, Registry, the counters and the focus history.
sharedState ==
  <<knowledgeGraphMap, knowledgeNodeCounter, stagnationCounter, cycleCounter,
    strategicFocusHistory, specialistPrompts, specialistMetadata,
    agentPerformanceMetrics, activeSpecialists>>

\* Cycle c takes a step: its record changes or it returns.  (stopSearch
\* does not change the record of a cycle that is already stopped.)
CycleSteps(c) ==
  /\ c \in DOMAIN cycles
  /\ c \notin DOMAIN cycles' \/ cycles'[c] # cycles[c]

\* The steps in which a generation-oracle call of a cycle fails.
OracleCallFails ==
  \E c \in DOMAIN cycles :
     \/ \E last \in BOOLEAN : SpecialistReturns(c, FALSE, last)
     \/ ArchitectFails(c, "error")
     \/ OneShotReturns(c, FALSE)

\* The steps in which the final answer has no text or cannot be parsed.
SynthesisFails ==
  \E c \in DOMAIN cycles, text \in FinalTexts :
     ParseFinal(text) = 0 /\ ArchitectFails(c, text)

\* C1: once the running flag is false while a cycle is in flight, no step
\* of that cycle changes the Knowledge Graph, the Registry, the node-id
\* counter, the stagnation counter or the focus history, and none saves.
C1_StoppedCycleIsInert ==
  [][\A c \in DOMAIN cycles :
       (cycles[c].stopped /\ ~isSearching /\ CycleSteps(c)) =>
         UNCHANGED <<knowledgeGraphMap, knowledgeNodeCounter,
                     stagnationCounter, strategicFocusHistory,
                     specialistPrompts, specialistMetadata,
                     agentPerformanceMetrics, activeSpecialists, store>>]_vars

\* C2: while some cycle is in its specialist phase nothing but a new
\* mission changes the Knowledge Graph, the Registry, the counters or the
\* focus history, and the interval timer begins a cycle body only when no
\* earlier body is in flight.
C2_SpecialistPhaseIsQuiet ==
  [][/\ ((\E c \in DOMAIN cycles : cycles[c].pc = "specialists")
           /\ resetPc = "idle")
        => UNCHANGED sharedState
     /\ ((\E t \in armedTimers : TimerFire(t)) /\ cyclesLeft' < cyclesLeft)
        => DOMAIN cycles = {}]_vars

\* C7: a failing oracle call of a cycle (specialist, architect round,
\* one-shot call of a tool effect) leaves the running flag false and no
\* timer armed, and saves nothing.
C7_OracleFailureHalts ==
  [][OracleCallFails =>
       ~isSearching' /\ armedTimers' = {} /\ store' = store]_vars

\* C8: a final answer without text or without parseable JSON leaves the
\* scheduler Idle with no timer armed, applies nothing and saves nothing.
C8_SynthesisFailureIsFatal ==
  [][SynthesisFails =>
       /\ ~isSearching'
       /\ armedTimers' = {}
       /\ UNCHANGED <<knowledgeGraphMap, knowledgeNodeCounter,
                      stagnationCounter, strategicFocusHistory,
                      currentMissionObjective, activeResearchVector,
                      store>>]_vars

\* C9: from the terminal marker until a new mission is started (while the
\* breakthrough screen is shown) the running flag is false, no timer is
\* armed and the store holds no snapshot.
C9_CompletedIsQuiet ==
  breakthroughShown =>
    ~isSearching /\ armedTimers = {} /\ ~store.present

\* C10: whenever the running flag is false no interval timer is armed.
C10_IdleHasNoTimer == ~isSearching => armedTimers = {}

\* The tool effects that take a node id, and the ids a call refers to.
NodeIdTools ==
  {"invoke_intuitionist", "challenge_with_skeptic",
   "request_formal_verification"}

ReferencedNodes(call) ==
  IF call.name = "invoke_intuitionist" THEN <<call.a, call.b>>
  ELSE <<call.a>>

\* Cycle c inserts a node: its apply loop reaches `await getEmbedding`
\* for a node it has just put into the graph under newNodeId.
InsertsNode(c) ==
  /\ c \in DOMAIN cycles
  /\ c \in DOMAIN cycles'
  /\ cycles'[c].pc = "embedding"
  /\ cycles[c].pc = "architect" \/ cycles'[c].idx = cycles[c].idx + 1

\* C3: every insert of a payload application uses an id no node of the
\* graph has, and advances the node-id counter, whatever the interleaving
\* of cycles, resets and loads.
C3_FreshNodeIds ==
  [][\A c \in DOMAIN cycles :
       InsertsNode(c) =>
         /\ cycles'[c].newNodeId \notin NodeIds(knowledgeGraphMap)
         /\ cycles'[c].newNodeId \in NodeIds(knowledgeGraphMap')
         /\ Len(knowledgeGraphMap') = Len(knowledgeGraphMap) + 1
         /\ knowledgeNodeCounter' > knowledgeNodeCounter]_vars

\* C3 witness: two cycles are applying their payloads at once and the
\* graph holds the nodes of both.
C3_InterleavedInserts ==
  /\ Len(knowledgeGraphMap) >= 2
  /\ \E c1 \in DOMAIN cycles, c2 \in DOMAIN cycles :
        /\ c1 # c2
        /\ cycles[c1].pc = "embedding"
        /\ cycles[c2].pc = "embedding"
        /\ {cycles[c1].newNodeId, cycles[c2].newNodeId}
             \subseteq NodeIds(knowledgeGraphMap)

\* C4: a call of a node-id tool that refers to an id the graph does not
\* hold leaves the graph as it is and is answered with success = false
\* and every missing id named.
C4_MissingNodeIsRefused ==
  [][\A c \in DOMAIN cycles, call \in ToolCalls, random \in RandomDraws :
       (/\ call.name \in NodeIdTools
        /\ MissingNodes(ReferencedNodes(call), knowledgeGraphMap) # <<>>
        /\ ArchitectToolCall(c, call, random))
       => /\ knowledgeGraphMap' = knowledgeGraphMap
          /\ cycles'[c].response.defined
          /\ ~cycles'[c].response.success
          /\ Range(MissingNodes(ReferencedNodes(call), knowledgeGraphMap))
               \subseteq Range(cycles'[c].response.named)]_vars

\* What reset(true) promises.
FreshMission ==
  /\ knowledgeGraphMap = <<>>
  /\ vectorKnowledgeBase = <<>>
  /\ knowledgeNodeCounter = 0
  /\ cycleCounter = 0
  /\ stagnationCounter = 0
  /\ strategicFocusHistory = <<>>
  /\ activeSpecialists = SeedAgents
  /\ \A id \in Range(SeedAgents) :
        /\ id \in DOMAIN specialistPrompts
        /\ specialistPrompts[id] # ""
        /\ id \in DOMAIN agentPerformanceMetrics
        /\ agentPerformanceMetrics[id] = ZeroMetric
  /\ ~store.present

\* C5: when clearAllNotebooks(true) ends with the scheduler idle and
\* nothing else in flight, the graph, the index and the history are
\* empty, the counters are 0, the six seeds are the active set, each with
\* a prompt and a zero metric, and the store holds no snapshot.
C5_ResetIsComplete ==
  [][(/\ clearAllNotebooksFinish
      /\ ~isSearching
      /\ DOMAIN cycles = {}
      /\ loader.pc = "idle")
     => FreshMission']_vars

\* C6: the restore of loadStateFromDB leaves the mission state the
\* snapshot holds: nodes, counters, objective, vector, active list,
\* prompts, metadata, metrics and focus history.
C6_LoadRestoresSnapshot ==
  [][(loader.snap.present /\ loadStateFromDB)
     => MissionState' = loader.snap]_vars


\* C11: a cycle that was in flight when stopSearch ran takes no step that
\* writes a snapshot, whether or not the search was started again before
\* its pending work returned.
C11_StoppedCycleNeverSaves ==
  [][\A c \in DOMAIN cycles :
       (cycles[c].stopped /\ CycleSteps(c)) => store' = store]_vars

(***************************************************************************)
(* One start from the fresh state and the cycles that follow it, every     *)
(* oracle call succeeding: in each cycle the architect answers with one    *)
(* call that deploys an agent and then with a final payload.               *)
(***************************************************************************)
InitEndToEnd ==
  /\ FreshStart
  /\ cyclesLeft = EndToEndCycles
  /\ roundsLeft = EndToEndCycles

EndToEndTexts == {"{1}", "'''json{2}'''", "{4}"}

EndToEndCalls ==
  {call \in ToolCalls :
     call.name = "deploy_new_specialist_agent" /\ call.a = "dyn-1"}

NextEndToEnd ==
  \/ ToggleStart
  \/ \E t \in armedTimers : TimerFire(t)
  \/ \E c \in DOMAIN cycles : SpecialistReturns(c, TRUE, TRUE)
  \/ \E c \in DOMAIN cycles, call \in EndToEndCalls :
       ~cycles[c].response.defined /\ ArchitectToolCall(c, call, 0)
  \/ \E c \in DOMAIN cycles, text \in EndToEndTexts :
       cycles[c].response.defined /\ ArchitectApplies(c, text, TRUE)
  \/ \E c \in DOMAIN cycles, ok \in BOOLEAN : EmbeddingReturns(c, ok, TRUE)
  \/ \E c \in DOMAIN cycles : SaveReturns(c)

SpecEndToEnd == InitEndToEnd /\ [][NextEndToEnd]_vars

\* C12: after a start from the fresh state no interval timer is armed
\* while cycle 1 is in flight; once cycle 1 has returned (one deploy call
\* for the new agent dyn-1, then a final payload that is not terminal) the
\* timer is armed, dyn-1 is registered and active, and the store holds a
\* snapshot with cycleCounter 1 whose active list contains dyn-1.
C12_FirstCycleEndToEnd ==
  /\ (cycleCounter = 1 /\ DOMAIN cycles # {}) => armedTimers = {}
  /\ (cycleCounter = 1 /\ DOMAIN cycles = {}) =>
       /\ isSearching
       /\ armedTimers # {}
       /\ "dyn-1" \in Range(activeSpecialists)
       /\ "dyn-1" \in DOMAIN specialistPrompts
       /\ "dyn-1" \in DOMAIN specialistMetadata
       /\ store.present
       /\ store.cycleCounter = 1
       /\ "dyn-1" \in Range(store.activeSpecialists)

\* C12: cycle 1 has returned and its snapshot is in the store.
C12_CycleOneDone ==
  /\ cycleCounter = 1
  /\ DOMAIN cycles = {}
  /\ armedTimers # {}
  /\ store.present
  /\ "dyn-1" \in Range(store.activeSpecialists)

(***************************************************************************)
(* The lifecycle check on every registry a mission can hold when a cycle   *)
(* begins: up to two dynamic agents, deployed at some earlier cycle with   *)
(* or without a lifespan and not yet due at the last check.                *)
(***************************************************************************)
LifecycleAgents == <<"dyn-1", "dyn-2">>

LifecycleMetadata(cycle) ==
  {meta \in [required_tools : {<<>>},
             lifespan_cycles : {NullLifespan} \cup 0..MaxLifespan,
             creationCycle : 0..cycle] :
     \/ meta.lifespan_cycles = NullLifespan
     \/ cycle - meta.creationCycle < meta.lifespan_cycles
     \/ cycle = meta.creationCycle}

\* A mission that has got to some cycle with some dynamic agents, idle.
InitLifecycle ==
  /\ knowledgeGraphMap = <<>>
  /\ knowledgeNodeCounter = 0
  /\ vectorKnowledgeBase = <<>>
  /\ currentMissionObjective = InitialObjective
  /\ activeResearchVector = InitialResearchVector
  /\ stagnationCounter = 0
  /\ strategicFocusHistory = <<>>
  /\ finalProofContent = ""
  /\ \E cycle \in 0..MaxCycleCounter, n \in 0..Len(LifecycleAgents) :
       \E metas \in [1..n -> LifecycleMetadata(cycle)] :
          LET ids == SubSeq(LifecycleAgents, 1, n)
              at(id) == CHOOSE i \in 1..n : ids[i] = id
          IN  /\ cycleCounter = cycle
              /\ notebooks = Range(SeedAgents) \cup {"synthesizer"}
                               \cup Range(ids)
              /\ specialistPrompts =
                   [id \in Range(SeedAgents) \cup Range(ids) |->
                      IF id \in Range(ids) THEN "mission of " \o id
                      ELSE SeedPrompt(id)]
              /\ specialistMetadata =
                   [id \in DOMAIN SeedMetadata \cup Range(ids) |->
                      IF id \in Range(ids) THEN metas[at(id)]
                      ELSE SeedMetadata[id]]
              /\ agentPerformanceMetrics =
                   [id \in Range(SeedAgents) \cup Range(ids) |-> ZeroMetric]
              /\ activeSpecialists = SeedAgents \o ids
  /\ isSearching = FALSE
  /\ searchIntervalId = 0
  /\ armedTimers = {}
  /\ searchButtonDisabled = FALSE
  /\ breakthroughShown = FALSE
  /\ store = NoSnapshot
  /\ cycles = EmptyMap
  /\ resetPc = "idle"
  /\ loader = IdleLoader
  /\ resumeDisabled = TRUE
  /\ cyclesLeft = LifecycleCycles
  /\ roundsLeft = 0

NextLifecycle ==
  \/ ToggleStart
  \/ ToggleStop
  \/ \E t \in armedTimers : TimerFire(t)
  \/ \E c \in DOMAIN cycles : SpecialistReturns(c, TRUE, TRUE)
  \/ \E c \in DOMAIN cycles : ArchitectApplies(c, "{4}", TRUE)
  \/ \E c \in DOMAIN cycles : SaveReturns(c)

SpecLifecycle == InitLifecycle /\ [][NextLifecycle]_vars

\* The agent is due at the check of cycle n: it has a lifespan and its age
\* has reached it.
Expired(id, n) ==
  /\ id \in DOMAIN specialistMetadata
  /\ specialistMetadata[id].lifespan_cycles # NullLifespan
  /\ n - specialistMetadata[id].creationCycle
       >= specialistMetadata[id].lifespan_cycles

\* A cycle body begins: the check runs with the incremented counter.
LifecycleCheckRuns == cycleCounter' = cycleCounter + 1 /\ isSearching'

\* C13: the lifecycle check of a cycle removes from the active set exactly
\* the agents that were due when the scan began (order kept), deletes
\* their prompt, metadata and metric, and leaves every other agent as it
\* was.
C13_ExpiredAgentsRetire ==
  [][LifecycleCheckRuns =>
       LET n == cycleCounter'
           due == {id \in Range(activeSpecialists) : Expired(id, n)}
           keep(m) == [id \in DOMAIN m \ due |-> m[id]]
       IN  /\ activeSpecialists' = FilterOut(activeSpecialists, due)
           /\ specialistPrompts' = keep(specialistPrompts)
           /\ specialistMetadata' = keep(specialistMetadata)
           /\ agentPerformanceMetrics' = keep(agentPerformanceMetrics)
           /\ notebooks' = notebooks \ due]_vars

\* C13: a check at which one agent has just reached its lifespan of 3 and
\* is retired while another, of the same age with lifespan 4, stays.
C13_AgeThreeRetired ==
  /\ isSearching
  /\ "dyn-1" \notin Range(activeSpecialists)
  /\ "dyn-2" \in Range(activeSpecialists)
  /\ specialistMetadata["dyn-2"].lifespan_cycles = 4
  /\ cycleCounter - specialistMetadata["dyn-2"].creationCycle = 3
  /\ "dyn-1" \notin DOMAIN specialistMetadata
  /\ "dyn-1" \notin DOMAIN specialistPrompts

\* The calls that deploy an agent.
DeployCall(call) == call.name = "deploy_new_specialist_agent"

\* C14: a deploy of an id that is already registered (in the tool loop, or
\* by the load that recreates the saved agents) leaves that agent's prompt,
\* metadata and metric and the active list as they were; a deploy of a new
\* id registers a prompt, metadata with creationCycle equal to the cycle
\* counter and a zero metric, and appends the id to the active list once.
C14_DeployIsGuarded ==
  [][/\ \A c \in DOMAIN cycles, call \in ToolCalls :
          (DeployCall(call) /\ ArchitectToolCall(c, call, 0)) =>
            IF call.a \in Range(activeSpecialists)
            THEN UNCHANGED <<specialistPrompts, specialistMetadata,
                             agentPerformanceMetrics, activeSpecialists>>
            ELSE /\ call.a \in DOMAIN specialistPrompts'
                 /\ call.a \in DOMAIN specialistMetadata'
                 /\ specialistMetadata'[call.a].creationCycle = cycleCounter
                 /\ specialistMetadata'[call.a].lifespan_cycles = call.k
                 /\ agentPerformanceMetrics'[call.a] =
                      [nodesCreated |-> 0, totalPromise |-> 0]
                 /\ activeSpecialists' = Append(activeSpecialists, call.a)
     /\ (loader.snap.present /\ loadStateFromDB) =>
          LET s == loader.snap
          IN  /\ activeSpecialists' = s.activeSpecialists
              /\ \A id \in Range(s.activeSpecialists) :
                   /\ id \in DOMAIN s.specialistPrompts =>
                        specialistPrompts'[id] = s.specialistPrompts[id]
                   /\ id \in DOMAIN s.specialistMetadata =>
                        specialistMetadata'[id] = s.specialistMetadata[id]
                   /\ id \in DOMAIN s.agentPerformanceMetrics =>
                        agentPerformanceMetrics'[id] =
                          s.agentPerformanceMetrics[id]]_vars

\* The calls that retire an agent.
RetireCall(call) == call.name = "retire_agent"

\* The id is nowhere in the Registry.
UnknownAgent(id) ==
  /\ id \notin Range(activeSpecialists)
  /\ id \notin DOMAIN specialistPrompts
  /\ id \notin DOMAIN specialistMetadata
  /\ id \notin DOMAIN agentPerformanceMetrics

\* C15: retiring an id takes it out of the active list and deletes its
\* prompt, metadata and metric while every other agent keeps its entries
\* and its place; for an id the Registry does not hold (never deployed, or
\* retired before) the Registry stays as it is, and the id is unknown
\* afterwards, so that a second retirement changes nothing.
C15_RetireRemovesAgent ==
  [][\A c \in DOMAIN cycles, call \in ToolCalls :
       (RetireCall(call) /\ ArchitectToolCall(c, call, 0)) =>
         LET id == call.a
             without(m) == [x \in DOMAIN m \ {id} |-> m[x]]
         IN  /\ activeSpecialists' = FilterOut(activeSpecialists, {id})
             /\ specialistPrompts' = without(specialistPrompts)
             /\ specialistMetadata' = without(specialistMetadata)
             /\ agentPerformanceMetrics' = without(agentPerformanceMetrics)
             /\ UnknownAgent(id)'
             /\ UnknownAgent(id) =>
                  UNCHANGED <<activeSpecialists, specialistPrompts,
                              specialistMetadata, agentPerformanceMetrics>>
    ]_vars

\* C15: a retire call for the seed specialist-1 has just been answered:
\* it is gone from the Registry and the other seeds are registered as
\* before.
C15_SeedRetired ==
  /\ \E c \in DOMAIN cycles : cycles[c].response.name = "retire_agent"
  /\ UnknownAgent("specialist-1")
  /\ activeSpecialists = Tail(SeedAgents)
  /\ \A id \in Range(Tail(SeedAgents)) :
       /\ specialistPrompts[id] = SeedPrompt(id)
       /\ id \in DOMAIN agentPerformanceMetrics

(***************************************************************************)
(* Sequences of final payloads: a start from the fresh state and the       *)
(* cycles the timer begins, each ending with one of three payloads.        *)
(***************************************************************************)
InitPayloads ==
  /\ FreshStart
  /\ cyclesLeft = PayloadCycles
  /\ roundsLeft = 0

PayloadTexts == {"{1}", "'''json{2}'''", "{4}"}

NextPayloads ==
  \/ ToggleStart
  \/ \E t \in armedTimers : TimerFire(t)
  \/ \E c \in DOMAIN cycles : SpecialistReturns(c, TRUE, TRUE)
  \/ \E c \in DOMAIN cycles, text \in PayloadTexts :
       ArchitectApplies(c, text, TRUE)
  \/ \E c \in DOMAIN cycles : EmbeddingReturns(c, TRUE, TRUE)
  \/ \E c \in DOMAIN cycles : SaveReturns(c)

SpecPayloads == InitPayloads /\ [][NextPayloads]_vars

\* Cycle c gets to the end of parseAndApplyArchitectResponse for payload
\* k in this step: after the embedding of its last node, or at once when
\* it has no nodes.
PayloadApplied(c, k) ==
  \/ /\ cycles[c].pc = "embedding"
     /\ cycles[c].payload = k
     /\ cycles[c].idx = Len(Payloads[k].nodes)
     /\ \E ok \in BOOLEAN : EmbeddingReturns(c, ok, TRUE)
  \/ /\ Payloads[k].nodes = <<>>
     /\ \E text \in FinalTexts :
          ParseFinal(text) = k /\ ArchitectApplies(c, text, TRUE)

\* C16: the step that completes the application of a payload leaves the
\* stagnation counter one higher when the payload's stagnation_level is
\* above 0 and at 0 when it is 0; no other step of a mission changes it.
C16_StagnationFollowsLevel ==
  [][IF \E c \in DOMAIN cycles, k \in DOMAIN Payloads : PayloadApplied(c, k)
     THEN \A c \in DOMAIN cycles, k \in DOMAIN Payloads :
            PayloadApplied(c, k) =>
              stagnationCounter' =
                IF Payloads[k].stagnation_level > 0
                THEN stagnationCounter + 1 ELSE 0
     ELSE stagnationCounter' = stagnationCounter]_vars

\* C16: payloads with levels 2, 0 and 1 have been applied one after the
\* other and the counter, after 1 and 0, stands at 1 again.
C16_TwoZeroOne ==
  /\ strategicFocusHistory = <<"LOGIC", "ALGEBRA", "ALGEBRA">>
  /\ knowledgeNodeCounter = 3
  /\ cycleCounter = 3
  /\ DOMAIN cycles = {}
  /\ stagnationCounter = 1

(***************************************************************************)
(* Stagnation & Bias Detector: the bias warning renderArchitectDashboard   *)
(* shows for a focus history ("" when the warning is hidden).              *)
(***************************************************************************)
STRATEGIC_BIAS_WINDOW == 8
\* 0.6, in tenths
STRATEGIC_BIAS_THRESHOLD == 6

\* focusCounts starts as the object literal {}, which inherits these
\* properties of Object.prototype.
ObjectPrototypeKeys ==
  {"constructor", "toString", "toLocaleString", "valueOf", "hasOwnProperty",
   "isPrototypeOf", "propertyIsEnumerable", "__proto__"}

\* JavaScript's NaN
NotANumber == -1

\* Array.prototype.slice(-n)
SliceLast(s, n) == IF Len(s) <= n THEN s ELSE SubSeq(s, Len(s) - n + 1, Len(s))

\* focusCounts[label] after the reduce: `(acc[focus] || 0) + 1` reads an
\* inherited property for a label that names one, and adding 1 to that
\* function or object gives a string (for __proto__ the assignment is
\* ignored and no entry exists): count / 8 is NaN.
FocusCount(lastNFocuses, label) ==
  IF label \in ObjectPrototypeKeys THEN NotANumber
  ELSE Cardinality({i \in DOMAIN lastNFocuses : lastNFocuses[i] = label})

renderArchitectDashboard(history) ==
  LET lastNFocuses == SliceLast(history, STRATEGIC_BIAS_WINDOW)
      dominantFocus ==
        {label \in Range(lastNFocuses) :
           /\ FocusCount(lastNFocuses, label) # NotANumber
           /\ FocusCount(lastNFocuses, label) * 10
                >= STRATEGIC_BIAS_THRESHOLD * STRATEGIC_BIAS_WINDOW}
  IN  IF Len(lastNFocuses) = STRATEGIC_BIAS_WINDOW /\ dominantFocus # {}
      THEN CHOOSE label \in dominantFocus : TRUE
      ELSE ""

(***************************************************************************)
(* The next cycles of a mission that has come to some focus history.       *)
(***************************************************************************)
BiasLabels == {"ALGEBRA", "constructor"}

InitBias ==
  /\ knowledgeGraphMap = <<>>
  /\ knowledgeNodeCounter = 0
  /\ vectorKnowledgeBase = <<>>
  /\ currentMissionObjective = InitialObjective
  /\ activeResearchVector = InitialResearchVector
  /\ stagnationCounter = 0
  /\ \E n \in 0..MaxHistory :
       /\ strategicFocusHistory \in [1..n -> BiasLabels]
       /\ cycleCounter = n
  /\ finalProofContent = ""
  /\ notebooks = Range(SeedAgents) \cup {"synthesizer"}
  /\ specialistPrompts = [id \in Range(SeedAgents) |-> SeedPrompt(id)]
  /\ specialistMetadata = SeedMetadata
  /\ agentPerformanceMetrics = [id \in Range(SeedAgents) |-> ZeroMetric]
  /\ activeSpecialists = SeedAgents
  /\ isSearching = FALSE
  /\ searchIntervalId = 0
  /\ armedTimers = {}
  /\ searchButtonDisabled = FALSE
  /\ breakthroughShown = FALSE
  /\ store = NoSnapshot
  /\ cycles = EmptyMap
  /\ resetPc = "idle"
  /\ loader = IdleLoader
  /\ resumeDisabled = TRUE
  /\ cyclesLeft = BiasCycles
  /\ roundsLeft = 0

BiasTexts == {"'''json{2}'''", "{4}", "{5}"}

NextBias ==
  \/ ToggleStart
  \/ \E t \in armedTimers : TimerFire(t)
  \/ \E c \in DOMAIN cycles : SpecialistReturns(c, TRUE, TRUE)
  \/ \E c \in DOMAIN cycles, text \in BiasTexts :
       ArchitectApplies(c, text, TRUE)
  \/ \E c \in DOMAIN cycles : EmbeddingReturns(c, TRUE, TRUE)
  \/ \E c \in DOMAIN cycles : SaveReturns(c)

SpecBias == InitBias /\ [][NextBias]_vars

\* C17: the warning the dashboard shows for the focus history names a
\* label exactly when the history has at least 8 entries and that label
\* fills 5 or more of the last 8; otherwise the warning is hidden.
C17_BiasWarningMatchesWindow ==
  LET h == strategicFocusHistory
      last8 == IF Len(h) >= 8 THEN SubSeq(h, Len(h) - 7, Len(h)) ELSE <<>>
      heavy == {label \in Range(last8) :
                  Cardinality({i \in 1..8 : last8[i] = label}) >= 5}
  IN  renderArchitectDashboard(h) =
        IF heavy # {} THEN CHOOSE label \in heavy : TRUE ELSE ""

(***************************************************************************)
(* Graphs built by payloads whose nodes refute nothing, refute an earlier  *)
(* node, or name the id they are about to get themselves.                  *)
(***************************************************************************)
InitGraph ==
  /\ FreshStart
  /\ cyclesLeft = GraphCycles
  /\ roundsLeft = 0

GraphTexts == {"{1}", "'''json{2}'''", "{6}"}

NextGraph ==
  \/ ToggleStart
  \/ \E t \in armedTimers : TimerFire(t)
  \/ \E c \in DOMAIN cycles : SpecialistReturns(c, TRUE, TRUE)
  \/ \E c \in DOMAIN cycles, text \in GraphTexts :
       ArchitectApplies(c, text, TRUE)
  \/ \E c \in DOMAIN cycles : EmbeddingReturns(c, TRUE, TRUE)
  \/ \E c \in DOMAIN cycles : SaveReturns(c)

SpecGraph == InitGraph /\ [][NextGraph]_vars

\* Node `other` has a relation REFUTES:<id> or INVALIDATES:<id>.
Targets(other, id) ==
  \E j \in DOMAIN other.relations :
     other.relations[j] \in {"REFUTES:" \o id, "INVALIDATES:" \o id}

\* A node that may be inserted next and whose relations refute and
\* invalidate nothing.
UnrelatedNodes ==
  {[id |-> "X" \o ToString(knowledgeNodeCounter), type |-> "X",
    content |-> "x", relations |-> rels, invalidated |-> "undefined",
    verified |-> "undefined", createdBy |-> "specialist-1",
    promiseScore |-> DefaultPromise] :
     rels \in {<<>>, <<"SUPPORTS:H0">>}}

\* C18: when the invalidation pass runs on the graph as it is, a node is
\* flagged exactly if some other node has a relation REFUTES:<id> or
\* INVALIDATES:<id> with its id; and the pass gives every node the same
\* flag when a node that refutes and invalidates nothing has been added.
C18_InvalidationFollowsRelations ==
  LET g == knowledgeGraphMap
      r == renderKnowledgeGraph(g)
  IN  /\ \A i \in DOMAIN g :
           (r[i].invalidated = "true") <=>
             \E j \in DOMAIN g : j # i /\ Targets(g[j], g[i].id)
      /\ \A n \in UnrelatedNodes : \A i \in DOMAIN g :
           renderKnowledgeGraph(Append(g, n))[i].invalidated
             = r[i].invalidated

(***************************************************************************)
(* The semantic search of the specialist steps, on the index of a mission  *)
(* that has inserted up to MaxVectors hypotheses, one per cycle, and got   *)
(* an embedding for each.                                                  *)
(***************************************************************************)
\* k = 3, the default every caller of performSemanticSearch relies on
DefaultK == 3

\* embeddings of stored nodes and of queries
Vectors == {<<1, 0>>, <<0, 1>>, <<-1, 0>>, <<0, 0>>, <<1>>}
QueryVectors == {<<1, 0>>, <<1, 1>>, <<0, 0>>}

\* The step of a specialist of cycle body c: getEmbedding of the mission
\* objective returns (ok: with queryEmbedding) and performSemanticSearch
\* ranks the index as it is now.
SemanticSearch(c, ok, queryEmbedding) ==
  /\ c \in DOMAIN cycles
  /\ cycles[c].pc = "specialists"
  /\ cycles' = [cycles EXCEPT ![c].search =
       [done |-> TRUE, ok |-> ok /\ vectorKnowledgeBase # <<>>,
        query |-> queryEmbedding, k |-> DefaultK,
        related |-> performSemanticSearch(ok, queryEmbedding, DefaultK,
                                          vectorKnowledgeBase,
                                          knowledgeGraphMap)]]
  /\ UNCHANGED <<kgVars, missionVars, registryVars, schedVars, store,
                 resetPc, loader, resumeDisabled, cyclesLeft, roundsLeft>>

InitSearch ==
  /\ \E n \in 0..MaxVectors :
       /\ knowledgeGraphMap =
            renderKnowledgeGraph(
              [i \in 1..n |-> NewNode(Payloads[1], 1, i - 1)])
       /\ knowledgeNodeCounter = n
       /\ \E embeddings \in [1..n -> Vectors] :
            vectorKnowledgeBase =
              [i \in 1..n |-> [id |-> NewNodeId("HYPOTHESIS", i - 1),
                               embedding |-> embeddings[i]]]
       /\ activeResearchVector =
            IF n = 0 THEN InitialResearchVector ELSE BestVector(Payloads[1])
       /\ strategicFocusHistory = [i \in 1..n |-> Payloads[1].focus]
       /\ cycleCounter = n
       /\ agentPerformanceMetrics =
            [id \in Range(SeedAgents) |->
               IF id = "specialist-1"
               THEN [nodesCreated |-> n,
                     totalPromise |->
                       n * PromiseOf(Payloads[1], Payloads[1].nodes[1])]
               ELSE ZeroMetric]
  /\ currentMissionObjective = InitialObjective
  /\ stagnationCounter = 0
  /\ finalProofContent = ""
  /\ notebooks = Range(SeedAgents) \cup {"synthesizer"}
  /\ specialistPrompts = [id \in Range(SeedAgents) |-> SeedPrompt(id)]
  /\ specialistMetadata = SeedMetadata
  /\ activeSpecialists = SeedAgents
  /\ isSearching = FALSE
  /\ searchIntervalId = 0
  /\ armedTimers = {}
  /\ searchButtonDisabled = FALSE
  /\ breakthroughShown = FALSE
  /\ store = IF cycleCounter = 0 THEN NoSnapshot ELSE MissionState
  /\ cycles = EmptyMap
  /\ resetPc = "idle"
  /\ loader = IdleLoader
  /\ resumeDisabled = TRUE
  /\ cyclesLeft = SearchCycles
  /\ roundsLeft = 0

NextSearch ==
  \/ ToggleStart
  \/ \E c \in DOMAIN cycles, ok \in BOOLEAN, queryEmbedding \in QueryVectors :
       SemanticSearch(c, ok, queryEmbedding)
  \/ \E c \in DOMAIN cycles : SpecialistReturns(c, TRUE, TRUE)
  \/ \E c \in DOMAIN cycles : ArchitectApplies(c, "{4}", TRUE)
  \/ \E c \in DOMAIN cycles : SaveReturns(c)

SpecSearch == InitSearch /\ [][NextSearch]_vars

\* The place of node id in the index, and its score against the query.
IndexOf(id) ==
  CHOOSE i \in DOMAIN vectorKnowledgeBase : vectorKnowledgeBase[i].id = id
ScoreOf(query, id) ==
  cosineSimilarity(query, vectorKnowledgeBase[IndexOf(id)].embedding)

\* C19: a search that got its query vector returns at most k ids, all of
\* them in the index and none twice, each with a score that is not below
\* the score of the next, and of two with equal scores the one inserted
\* earlier first; an id left out is ranked behind every id returned; a
\* stored vector of another length than the query's or of magnitude zero
\* scores 0; and against the query [1,0] a stored [1,0] comes before a
\* stored [0,1].
C19_QueryRanksBySimilarity ==
  \A c \in DOMAIN cycles :
     LET s == cycles[c].search
         r == s.related
         ids == {vectorKnowledgeBase[i].id : i \in DOMAIN vectorKnowledgeBase}
         Before(a, b) ==
           \/ ScoreLess(ScoreOf(s.query, b), ScoreOf(s.query, a))
           \/ /\ ScoreEqual(ScoreOf(s.query, a), ScoreOf(s.query, b))
              /\ IndexOf(a) < IndexOf(b)
     IN  (s.done /\ s.ok) =>
          /\ Len(r) <= s.k
          /\ Range(r) \subseteq ids
          /\ \A i, j \in DOMAIN r : i < j => Before(r[i], r[j])
          /\ \A id \in ids \ Range(r) :
                Len(r) = s.k /\ \A i \in DOMAIN r : Before(r[i], id)
          /\ \A i \in DOMAIN vectorKnowledgeBase :
                LET v == vectorKnowledgeBase[i].embedding
                IN  (Len(v) # Len(s.query) \/ v \in {<<0, 0>>})
                      => cosineSimilarity(s.query, v).n = 0
          /\ \A i, j \in DOMAIN r :
                (/\ s.query = <<1, 0>>
                 /\ vectorKnowledgeBase[IndexOf(r[i])].embedding = <<1, 0>>
                 /\ vectorKnowledgeBase[IndexOf(r[j])].embedding = <<0, 1>>)
                  => i < j

\* C19 witness: four vectors are stored, [0,1] first, then [1,0] twice,
\* then one of another length; the query [1,0] returns three ids, the two
\* [1,0] in insertion order and then the [0,1].
C19_TopThreeOfFour ==
  \E c \in DOMAIN cycles :
     /\ cycles[c].search.done
     /\ cycles[c].search.ok
     /\ cycles[c].search.query = <<1, 0>>
     /\ Len(vectorKnowledgeBase) = 4
     /\ vectorKnowledgeBase[1].embedding = <<0, 1>>
     /\ vectorKnowledgeBase[2].embedding = <<1, 0>>
     /\ vectorKnowledgeBase[3].embedding = <<1, 0>>
     /\ vectorKnowledgeBase[4].embedding = <<1>>
     /\ cycles[c].search.related = <<"H1", "H2", "H0">>

(***************************************************************************)
(* The tool loop on batches of one or two invocations: a deployment, a     *)
(* retirement, a web search (which awaits the oracle inside the round)     *)
(* and a tool that does not exist.                                         *)
(***************************************************************************)
InitBatch ==
  /\ FreshStart
  /\ cyclesLeft = BatchCycles
  /\ roundsLeft = BatchRounds

BatchCalls ==
  {[name |-> "deploy_new_specialist_agent", a |-> "dyn-1", b |-> "",
    k |-> NullLifespan],
   [name |-> "retire_agent", a |-> "specialist-1", b |-> "", k |-> 0],
   [name |-> "perform_web_search", a |-> "", b |-> "", k |-> 0],
   [name |-> "summon_oracle", a |-> "", b |-> "", k |-> 0]}

ToolBatches ==
  {<<call>> : call \in BatchCalls}
    \cup {<<first, second>> : first \in BatchCalls, second \in BatchCalls}

NextBatch ==
  \/ ToggleStart
  \/ \E c \in DOMAIN cycles : SpecialistReturns(c, TRUE, TRUE)
  \/ \E c \in DOMAIN cycles, functionCalls \in ToolBatches :
       ArchitectToolBatch(c, functionCalls, 0)
  \/ \E c \in DOMAIN cycles, ok \in BOOLEAN : OneShotReturns(c, ok)
  \/ \E c \in DOMAIN cycles : ArchitectApplies(c, "{4}", TRUE)
  \/ \E c \in DOMAIN cycles : SaveReturns(c)

SpecBatch == InitBatch /\ [][NextBatch]_vars

\* The registry after the invocation called `name` of BatchCalls alone.
RegistryAfter(name) ==
  CASE name = "deploy_new_specialist_agent" ->
         [nb |-> notebooks \cup {"dyn-1"},
          active |-> IF "dyn-1" \in notebooks THEN activeSpecialists
                     ELSE Append(activeSpecialists, "dyn-1")]
    [] name = "retire_agent" ->
         [nb |-> notebooks \ {"specialist-1"},
          active |-> FilterOut(activeSpecialists, {"specialist-1"})]
    [] OTHER -> [nb |-> notebooks, active |-> activeSpecialists]

\* C20: a step that begins a round pushes the batch and changes the
\* registry as the first invocation of the batch alone does, whatever
\* comes later in the batch; the graph is left alone; and whenever an
\* oracle request of the loop is out, the messages pushed so far are a
\* model message and one tool message with one part in turn, the tool
\* message answering the first invocation of the batch before it.
C20_OneToolEffectPerRound ==
  [][\A c \in DOMAIN cycles :
       (c \in DOMAIN cycles') =>
         LET before == cycles[c].conversation
             after == cycles'[c].conversation
             n == Len(before)
         IN  /\ (Len(after) > n /\ after[n + 1].role = "model") =>
                  /\ notebooks' = RegistryAfter(after[n + 1].parts[1]).nb
                  /\ activeSpecialists' =
                       RegistryAfter(after[n + 1].parts[1]).active
                  /\ knowledgeGraphMap' = knowledgeGraphMap
             /\ (Len(after) = n) =>
                  (cycles[c].pc \in {"architect", "oneshot"} =>
                     /\ notebooks' = notebooks
                     /\ activeSpecialists' = activeSpecialists)
             /\ (cycles'[c].pc = "architect") =>
                  /\ Len(after) % 2 = 0
                  /\ \A i \in DOMAIN after :
                       IF i % 2 = 1 THEN after[i].role = "model"
                       ELSE /\ after[i].role = "tool"
                            /\ Len(after[i].parts) = 1
                            /\ after[i].parts[1]
                                 \in {after[i - 1].parts[1], ""}
                            /\ after[i].parts[1] = ""
                                 => after[i - 1].parts[1] = "summon_oracle"
             /\ (cycles'[c].pc = "oneshot") =>
                  /\ Len(after) % 2 = 1
                  /\ after[Len(after)].role = "model"]_vars

\* C20 witness: the oracle returned a deployment and a retirement in one
\* batch; the round deployed dyn-1, left specialist-1 in place, pushed one
\* tool message and the next request is out.
C20_DeployedNotRetired ==
  \E c \in DOMAIN cycles :
     /\ cycles[c].pc = "architect"
     /\ cycles[c].conversation =
          <<[role |-> "model",
             parts |-> <<"deploy_new_specialist_agent", "retire_agent">>],
            [role |-> "tool",
             parts |-> <<"deploy_new_specialist_agent">>]>>
     /\ "dyn-1" \in notebooks
     /\ "specialist-1" \in notebooks

(***************************************************************************)
(* Cycles whose puts into the store and whose embedding requests may fail. *)
(***************************************************************************)
InitFaults ==
  /\ FreshStart
  /\ cyclesLeft = FaultCycles
  /\ roundsLeft = 0

NextFaults ==
  \/ ToggleStart
  \/ \E t \in armedTimers : TimerFire(t)
  \/ \E c \in DOMAIN cycles : SpecialistReturns(c, TRUE, TRUE)
  \/ \E c \in DOMAIN cycles, text \in {"{1}", "'''json{2}'''", "{4}"},
        saveOk \in BOOLEAN :
       ArchitectApplies(c, text, saveOk)
  \/ \E c \in DOMAIN cycles, ok \in BOOLEAN, saveOk \in BOOLEAN :
       EmbeddingReturns(c, ok, saveOk)
  \/ \E c \in DOMAIN cycles : SaveReturns(c)

SpecFaults == InitFaults /\ [][NextFaults]_vars

\* C21: when a save that failed returns, the scheduler is as it was: the
\* flag is unchanged, and if it is set an interval timer is armed, so that
\* later cycles fire, also when the cycle was the first after a start; and
\* neither the failing put nor its return changes the stored snapshot.
C21_FailedSaveKeepsScheduler ==
  [][\A c \in DOMAIN cycles :
       /\ (cycles[c].pc = "saving" /\ ~cycles[c].saveOk
             /\ c \notin DOMAIN cycles') =>
            /\ isSearching' = isSearching
            /\ store' = store
            /\ isSearching' =>
                 (armedTimers' # {} /\ searchIntervalId' \in armedTimers')
       /\ (c \in DOMAIN cycles' /\ cycles[c].pc # "saving"
             /\ cycles'[c].pc = "saving" /\ ~cycles'[c].saveOk) =>
            store' = store]_vars

\* C22: the stored snapshot is closed under relations: the target id of
\* every relation of every node in it is the id of a node in it.
C22_SnapshotClosedUnderRelations ==
  store.present =>
    \A i \in DOMAIN store.knowledgeGraph :
       \A j \in DOMAIN store.knowledgeGraph[i].relations :
          RelTarget(store.knowledgeGraph[i].relations[j])
            \in NodeIds(store.knowledgeGraph)

\* C23: in every step that is not a reset, a load or a restart of the
\* page, every node of the graph is still in the graph afterwards, at its
\* place, with the id, type, content, relations, createdBy and promiseScore
\* it had.
C23_NodesAreKept ==
  [][~(clearAllNotebooksFinish \/ loadStateFromDB \/ StartUp) =>
       \A i \in DOMAIN knowledgeGraphMap :
          /\ i \in DOMAIN knowledgeGraphMap'
          /\ \A f \in {"id", "type", "content", "relations", "createdBy",
                        "promiseScore"} :
                knowledgeGraphMap'[i][f] = knowledgeGraphMap[i][f]]_vars

\* C23 witness: two nodes have been inserted and the first has since been
\* verified.
C23_VerifiedAmongNodes ==
  /\ Len(knowledgeGraphMap) >= 2
  /\ knowledgeGraphMap[1].id = "H0"
  /\ knowledgeGraphMap[1].verified = "true"
  /\ knowledgeGraphMap[1].invalidated = "false"

\* C24: the six seed agents are permanent: each is in the active set and
\* has a stored prompt in every state.
C24_SeedAgentsArePermanent ==
  \A id \in Range(SeedAgents) :
     /\ id \in Range(activeSpecialists)
     /\ id \in DOMAIN specialistPrompts

\* C25: a round of the tool loop on modify_agent_prompt, retire_agent or
\* request_peer_review that names an agent id the Registry does not hold
\* leaves prompts, metadata, metrics and the active list as they are,
\* answers the oracle with success = false and goes on to the next request.
C25_UnknownAgentIsRefused ==
  [][\A c \in DOMAIN cycles, call \in ToolCalls :
       (/\ call.name \in {"modify_agent_prompt", "retire_agent",
                          "request_peer_review"}
        /\ UnknownAgent(call.a)
        /\ ArchitectToolCall(c, call, 0)) =>
         /\ UNCHANGED <<activeSpecialists, specialistPrompts,
                        specialistMetadata, agentPerformanceMetrics>>
         /\ cycles'[c].pc = "architect"
         /\ cycles'[c].response.defined
         /\ ~cycles'[c].response.success]_vars

(***************************************************************************)
(* A mission in which the architect deploys dyn-1 with a lifespan during   *)
(* cycle 1, and which is stopped, started, saved, and loaded again after a *)
(* restart of the page.                                                    *)
(***************************************************************************)
InitLifespan ==
  /\ FreshStart
  /\ cyclesLeft = LifespanCycles
  /\ roundsLeft = LifespanRounds

NextLifespan ==
  \/ ToggleStart
  \/ ToggleStop
  \/ \E t \in armedTimers : TimerFire(t)
  \/ \E c \in DOMAIN cycles : SpecialistReturns(c, TRUE, TRUE)
  \/ \E c \in DOMAIN cycles :
       /\ cycleCounter = 1
       /\ ArchitectToolCall(c, [name |-> "deploy_new_specialist_agent",
                                a |-> "dyn-1", b |-> "",
                                k |-> DeployedLifespan], 0)
  \/ \E c \in DOMAIN cycles : ArchitectApplies(c, "{4}", TRUE)
  \/ \E c \in DOMAIN cycles : SaveReturns(c)
  \/ StartUp
  \/ ResumeClick
  \/ loadStateFromDB

SpecLifespan == InitLifespan /\ [][NextLifespan]_vars

\* C26: dyn-1 is deployed during cycle 1 with lifespan DeployedLifespan;
\* once the lifecycle check of a cycle numbered 1 + DeployedLifespan or
\* higher has run, dyn-1 is not in the active list, so that no specialist
\* step is issued for it in that cycle.
C26_LifespanIsRespected ==
  [][(LifecycleCheckRuns /\ cycleCounter' >= 1 + DeployedLifespan) =>
       "dyn-1" \notin Range(activeSpecialists')]_vars

\* C27: in every state the agents with a performance metric are the agents
\* of the active list; and every insert of a node attributed to an active
\* agent adds 1 to that agent's nodesCreated and the node's promiseScore to
\* its totalPromise.
C27_MetricsFollowActiveSet ==
  /\ [](DOMAIN agentPerformanceMetrics = Range(activeSpecialists))
  /\ [][\A c \in DOMAIN cycles :
          InsertsNode(c) =>
            LET node == KgGet(knowledgeGraphMap', cycles'[c].newNodeId)
                by == node.createdBy
            IN  by \in Range(activeSpecialists) =>
                  /\ by \in DOMAIN agentPerformanceMetrics
                  /\ agentPerformanceMetrics'[by].nodesCreated =
                       agentPerformanceMetrics[by].nodesCreated + 1
                  /\ agentPerformanceMetrics'[by].totalPromise =
                       agentPerformanceMetrics[by].totalPromise
                         + node.promiseScore]_vars

C29_EmbeddingFailureIsSkipped ==
  [][\A c \in DOMAIN cycles, saveOk \in BOOLEAN :
       EmbeddingReturns(c, FALSE, saveOk) =>
         LET rec == cycles[c]
             nodes == Payloads[rec.payload].nodes
             by == nodes[rec.idx].created_by
         IN  /\ rec.newNodeId \in NodeIds(knowledgeGraphMap')
             /\ by \in DOMAIN agentPerformanceMetrics =>
                  agentPerformanceMetrics[by].nodesCreated >= 1
             /\ vectorKnowledgeBase' = vectorKnowledgeBase
             /\ \A i \in DOMAIN vectorKnowledgeBase' :
                   vectorKnowledgeBase'[i].id # rec.newNodeId
             /\ isSearching' = isSearching
             /\ armedTimers' = armedTimers
             /\ rec.idx < Len(nodes) =>
                  /\ c \in DOMAIN cycles'
                  /\ cycles'[c].pc = "embedding"
                  /\ cycles'[c].idx = rec.idx + 1
                  /\ cycles'[c].newNodeId # rec.newNodeId
                  /\ cycles'[c].newNodeId \in NodeIds(knowledgeGraphMap')
    ]_vars

\* C29 witness: the payload with the nodes D0 and R1 has been applied, the
\* embedding of D0 failed and the one of R1 did not: both nodes are in the
\* graph, the index holds R1 only and the scheduler is running.
C29_SecondNodeAfterFailure ==
  /\ {"D0", "R1"} \subseteq NodeIds(knowledgeGraphMap)
  /\ Len(vectorKnowledgeBase) = 1
  /\ vectorKnowledgeBase[1].id = "R1"
  /\ isSearching

\* ---------------------------------------------------------------------------
\* The architect's tool loop under a fair oracle, src/index.tsx:1716-2149.
\* The loop has no round counter: the rounds of a run are limited by
\* roundsLeft alone.  Every awaited oracle call settles (weak fairness of the
\* continuation of each await), and the oracle does not answer with tool
\* invocations for ever: a final text or a failed call comes eventually
\* (strong fairness, as a tool round with an inner call disables it for a
\* while).
InitLoop ==
  /\ FreshStart
  /\ cyclesLeft = LoopCycles
  /\ roundsLeft = LoopRounds

LoopCalls ==
  [name : {"execute_python_code", "perform_web_search"},
   a : {""}, b : {""}, k : {0}]

OracleEnds(c) ==
  \/ ArchitectApplies(c, "{4}", TRUE)
  \/ ArchitectFails(c, "error")

NextLoop ==
  \/ ToggleStart
  \/ \E t \in armedTimers : TimerFire(t)
  \/ \E c \in DOMAIN cycles : SpecialistReturns(c, TRUE, TRUE)
  \/ \E c \in DOMAIN cycles, call \in LoopCalls :
       ArchitectToolCall(c, call, 0)
  \/ \E c \in DOMAIN cycles, ok \in BOOLEAN : OneShotReturns(c, ok)
  \/ \E c \in DOMAIN cycles : OracleEnds(c)
  \/ \E c \in DOMAIN cycles : SaveReturns(c)

SpecLoop ==
  /\ InitLoop
  /\ [][NextLoop]_vars
  /\ \A c \in 1..LoopCycles :
       /\ WF_vars(\E ok \in BOOLEAN : OneShotReturns(c, ok))
       /\ SF_vars(OracleEnds(c))

\* The cycle is inside the architect's tool loop: awaiting the architect's
\* response or the inner call of a tool.
InToolLoop(c) ==
  c \in DOMAIN cycles /\ cycles[c].pc \in {"architect", "oneshot"}

DeclaredTools ==
  {"invoke_intuitionist", "challenge_with_skeptic",
   "deploy_new_specialist_agent", "request_formal_verification",
   "execute_python_code", "retire_agent", "perform_web_search",
   "modify_agent_prompt", "request_peer_review"}

\* C31: a round on an invocation whose name is not one of the nine declared
\* tools changes no state of the mission, the registry or the scheduler, and
\* the tool message sent back carries a defined result with success false.
C31_UnknownToolIsAnError ==
  [][\A c \in DOMAIN cycles, call \in ToolCalls :
       (call.name \notin DeclaredTools /\ ArchitectToolCall(c, call, 0)) =>
         /\ UNCHANGED <<kgVars, missionVars, registryVars, schedVars, store>>
         /\ cycles'[c].pc = "architect"
         /\ cycles'[c].response.defined
         /\ ~cycles'[c].response.success]_vars

\* ---------------------------------------------------------------------------
\* The chaos intervention, src/index.tsx:1568-1586.  The runs start in the
\* state a mission is in after n cycles that each applied payload 4 (nothing
\* new, stagnation level 1) and a stop: n is at most the threshold, and the
\* snapshot of the last cycle is in the store.
StagnantHistory(n) == [i \in 1..n |-> Payloads[4].focus]

InitChaos ==
  /\ knowledgeGraphMap = <<>>
  /\ knowledgeNodeCounter = 0
  /\ vectorKnowledgeBase = <<>>
  /\ currentMissionObjective = InitialObjective
  /\ activeResearchVector = InitialResearchVector
  /\ \E n \in (CHAOS_INTERVENTION_THRESHOLD - StagnationSpan)
                 ..CHAOS_INTERVENTION_THRESHOLD :
       /\ stagnationCounter = n
       /\ cycleCounter = n
       /\ strategicFocusHistory = StagnantHistory(n)
  /\ finalProofContent = ""
  /\ notebooks = Range(SeedAgents) \cup {"synthesizer"}
  /\ specialistPrompts = [id \in Range(SeedAgents) |-> SeedPrompt(id)]
  /\ specialistMetadata = SeedMetadata
  /\ agentPerformanceMetrics = [id \in Range(SeedAgents) |-> ZeroMetric]
  /\ activeSpecialists = SeedAgents
  /\ isSearching = FALSE
  /\ searchIntervalId = 0
  /\ armedTimers = {}
  /\ searchButtonDisabled = FALSE
  /\ breakthroughShown = FALSE
  /\ store = MissionState
  /\ cycles = EmptyMap
  /\ resetPc = "idle"
  /\ loader = IdleLoader
  /\ resumeDisabled = TRUE
  /\ cyclesLeft = ChaosCycles
  /\ roundsLeft = 0

ChaosTexts == {"{4}", "{5}"}

NextChaos ==
  \/ ToggleStart
  \/ ToggleStop
  \/ \E t \in armedTimers : TimerFire(t)
  \/ \E c \in DOMAIN cycles : SpecialistReturns(c, TRUE, TRUE)
  \/ \E c \in DOMAIN cycles, text \in ChaosTexts :
       ArchitectApplies(c, text, TRUE)
  \/ \E c \in DOMAIN cycles : SaveReturns(c)

SpecChaos == InitChaos /\ [][NextChaos]_vars

\* C32: the request of an architect phase carries the chaos intervention
\* exactly when the stagnation counter is at least the threshold at the step
\* that starts the phase; that step changes nothing but the cycle itself, and
\* the annotation of a running phase never changes afterwards.
C32_ChaosAtThreshold ==
  [][\A c \in DOMAIN cycles :
       /\ (SpecialistReturns(c, TRUE, TRUE) /\ c \in DOMAIN cycles') =>
            /\ cycles'[c].pc = "architect"
            /\ cycles'[c].chaos <=>
                 (stagnationCounter >= CHAOS_INTERVENTION_THRESHOLD)
            /\ UNCHANGED <<kgVars, missionVars, registryVars, schedVars,
                           store>>
       /\ (cycles[c].pc = "architect" /\ c \in DOMAIN cycles'
             /\ cycles'[c].pc = "architect") =>
            cycles'[c].chaos = cycles[c].chaos]_vars

\* C32 witness: a cycle of the run has brought the counter to the threshold
\* and saved it, and the architect phase of the next cycle is annotated.
C32_AnnotatedAtFive ==
  \E c \in DOMAIN cycles :
    /\ cycles[c].pc = "architect"
    /\ cycles[c].chaos
    /\ stagnationCounter = CHAOS_INTERVENTION_THRESHOLD
    /\ store.present
    /\ store.cycleCounter = CHAOS_INTERVENTION_THRESHOLD
    /\ cycleCounter = CHAOS_INTERVENTION_THRESHOLD + 1

\* ---------------------------------------------------------------------------
\* Formal verification over a mission with reset, page load and resume,
\* src/index.tsx:1888-1927.  Proof texts of four lengths, and draws of
\* Math.random (in thousandths) on both sides of each success chance.
ProofLengths == {0, 500, 950, 2000}
VerifyDraws == {0, 99, 100, 499, 500, 999}

InitVerify ==
  /\ FreshStart
  /\ cyclesLeft = VerifyCycles
  /\ roundsLeft = VerifyRounds

VerifyCalls ==
  [name : {"request_formal_verification"}, a : NodeArgs, b : {""},
   k : ProofLengths]

NextVerify ==
  \/ ToggleStart
  \/ ToggleStop
  \/ \E t \in armedTimers : TimerFire(t)
  \/ \E c \in DOMAIN cycles : SpecialistReturns(c, TRUE, TRUE)
  \/ \E c \in DOMAIN cycles, call \in VerifyCalls, random \in VerifyDraws :
       ArchitectToolCall(c, call, random)
  \/ \E c \in DOMAIN cycles : ArchitectApplies(c, "{1}", TRUE)
  \/ \E c \in DOMAIN cycles : EmbeddingReturns(c, TRUE, TRUE)
  \/ \E c \in DOMAIN cycles : SaveReturns(c)
  \/ NewMissionClick
  \/ clearAllNotebooksFinish
  \/ ResumeClick
  \/ loadStateFromDB
  \/ RebuildEmbeddingReturns(TRUE)
  \/ StartUp

SpecVerify == InitVerify /\ [][NextVerify]_vars

\* max(0.1, 1 - length / 1000) in thousandths.
ExpectedChance(length) ==
  IF 1000 - length >= 100 THEN 1000 - length ELSE 100

\* C33: the verified flag of a node that stays in the graph changes only in a
\* round of request_formal_verification that names the node's id, and becomes
\* true exactly when the draw is below max(0.1, 1 - length / 1000) of the
\* proof text; that chance never grows with the length and is never below
\* 0.1.
C33_VerifiedOnlyByVerification ==
  /\ \A k \in 0..MaxProofLength :
       /\ SuccessChance(k) = ExpectedChance(k)
       /\ SuccessChance(k) >= 100
       /\ k > 0 => SuccessChance(k) <= SuccessChance(k - 1)
  /\ [][\A id \in NodeIds(knowledgeGraphMap) \cap NodeIds(knowledgeGraphMap') :
          KgGet(knowledgeGraphMap', id).verified
              # KgGet(knowledgeGraphMap, id).verified =>
            \E c \in DOMAIN cycles, call \in VerifyCalls,
               random \in VerifyDraws :
              /\ call.a = id
              /\ ArchitectToolCall(c, call, random)
              /\ KgGet(knowledgeGraphMap', id).verified =
                   IF random < ExpectedChance(call.k) THEN "true"
                   ELSE "false"]_vars

\* C33 as amended: the verified flag of a node that stays in the graph
\* changes only in a round of request_formal_verification that names the
\* node's id, which sets it to the outcome of the draw against
\* max(0.1, 1 - length / 1000), or when a load replaces the node by its copy
\* in the snapshot, whose flag it then carries; the chance never grows with
\* the length and is never below 0.1.
C33_VerifiedByVerificationOrLoad ==
  /\ \A k \in 0..MaxProofLength :
       /\ SuccessChance(k) = ExpectedChance(k)
       /\ SuccessChance(k) >= 100
       /\ k > 0 => SuccessChance(k) <= SuccessChance(k - 1)
  /\ [][\A id \in NodeIds(knowledgeGraphMap) \cap NodeIds(knowledgeGraphMap') :
          KgGet(knowledgeGraphMap', id).verified
              # KgGet(knowledgeGraphMap, id).verified =>
            \/ \E c \in DOMAIN cycles, call \in VerifyCalls,
                  random \in VerifyDraws :
                 /\ call.a = id
                 /\ ArchitectToolCall(c, call, random)
                 /\ KgGet(knowledgeGraphMap', id).verified =
                      IF random < ExpectedChance(call.k) THEN "true"
                      ELSE "false"
            \/ /\ loadStateFromDB
               /\ loader.snap.present
               /\ id \in NodeIds(loader.snap.knowledgeGraph)
               /\ KgGet(knowledgeGraphMap', id).verified =
                    KgGet(loader.snap.knowledgeGraph, id).verified]_vars

\* C33 witness: H0 has failed a verification, and the snapshot of an earlier
\* cycle holds it as a node that was never verified.
C33_FailedVerification ==
  /\ "H0" \in NodeIds(knowledgeGraphMap)
  /\ KgGet(knowledgeGraphMap, "H0").verified = "false"
  /\ store.present
  /\ "H0" \in NodeIds(store.knowledgeGraph)
  /\ KgGet(store.knowledgeGraph, "H0").verified = "undefined"

\* ---------------------------------------------------------------------------
\* The final texts of the scheduler runs whose summary begins with the
\* terminal marker.
TerminalTexts ==
  {text \in SchedulerTexts :
     /\ ParseFinal(text) # 0
     /\ StartsWith(Payloads[ParseFinal(text)].summary, TerminalMarker)}

\* C34: the step that takes a final payload whose summary begins with the
\* terminal marker inserts no node and leaves the graph, the node counter,
\* the stagnation counter, the focus history, the objective, the research
\* vector and the performance metrics as they were.
C34_TerminalPayloadNotApplied ==
  [][\A c \in DOMAIN cycles, text \in TerminalTexts :
       (ArchitectCompletes(c, text) \/ ArchitectApplies(c, text, TRUE)) =>
         UNCHANGED <<knowledgeGraphMap, knowledgeNodeCounter,
                     vectorKnowledgeBase, stagnationCounter,
                     strategicFocusHistory, currentMissionObjective,
                     activeResearchVector, agentPerformanceMetrics>>]_vars

\* C34 witness: the second cycle has ended with the proof; the graph holds
\* the node of the first cycle alone, and the terminal payload's theorem
\* node, focus and stagnation level have left no trace.
C34_ProofAfterOneCycle ==
  /\ breakthroughShown
  /\ finalProofContent = "qed"
  /\ NodeIds(knowledgeGraphMap) = {"H0"}
  /\ knowledgeNodeCounter = 1
  /\ stagnationCounter = 0
  /\ strategicFocusHistory = <<"ALGEBRA">>
  /\ cycleCounter = 2

\* ---------------------------------------------------------------------------
\* The cycle reaches saveStateToDB in this step: its payload is applied to
\* the end and the snapshot is written.
WritesSnapshot(c) ==
  /\ c \in DOMAIN cycles
  /\ cycles[c].pc \in {"architect", "embedding"}
  /\ c \in DOMAIN cycles'
  /\ cycles'[c].pc = "saving"
  /\ cycles'[c].saveOk

\* C35: the snapshot written at the end of cycle n records cycleCounter = n
\* and the state with the whole payload of that cycle applied (its last node
\* included), and no other cycle is in the middle of applying its payload at
\* that moment.
C35_SnapshotIsOfItsCycle ==
  [][\A c \in DOMAIN cycles :
       WritesSnapshot(c) =>
         /\ store'.present
         /\ store'.cycleCounter = cycles[c].n
         /\ store' = MissionState'
         /\ cycles[c].pc = "embedding" =>
              cycles[c].newNodeId \in NodeIds(store'.knowledgeGraph)
         /\ \A other \in DOMAIN cycles \ {c} :
              cycles[other].pc # "embedding"]_vars

\* ---------------------------------------------------------------------------
\* The load comes to its end in this step: db.get has answered with a
\* snapshot and the restore, with the rebuild of the index, is through.
LoadCompletes ==
  /\ loader.pc \in {"getting", "rebuilding"}
  /\ loader.pc = "getting" => loader.snap.present
  /\ loader'.pc = "idle"

\* C36: a load that finds no snapshot reports absent and leaves the mission,
\* the registry, the scheduler and the cycles in flight as they were; a load
\* that finds a snapshot has stopped the scheduler, which is idle with no
\* timer armed when the load completes.
C36_LoadAbsentOrStopped ==
  [][/\ (loader.pc = "getting" /\ ~loader.snap.present /\ loadStateFromDB) =>
          /\ loader' = IdleLoader
          /\ UNCHANGED <<kgVars, missionVars, registryVars, schedVars,
                         cycles, store>>
     /\ LoadCompletes => (~isSearching' /\ armedTimers' = {})]_vars

\* ---------------------------------------------------------------------------
\* C37: a click on the new-mission control while the scheduler is running is
\* refused: no reset begins, and the graph, the index, the registry, the
\* counters, the history, the snapshot and the scheduler are as before.
C37_ResetRefusedWhileRunning ==
  [][(isSearching /\ NewMissionClick) =>
       /\ resetPc' = resetPc
       /\ UNCHANGED <<kgVars, missionVars, registryVars, schedVars, store,
                      cycles>>]_vars

\* C37 witness: the scheduler is running between two cycles, with a node in
\* the graph, a snapshot in the store and the new-mission control in view.
C37_RunningWithSnapshot ==
  /\ isSearching
  /\ ControlsVisible
  /\ resetPc = "idle"
  /\ armedTimers # {}
  /\ knowledgeGraphMap # <<>>
  /\ store.present
  /\ cycleCounter >= 1

\* ---------------------------------------------------------------------------
\* C38: every entry of the semantic index names a node that is in the
\* knowledge graph, and no node has two entries.
C38_IndexMatchesGraph ==
  /\ \A i \in DOMAIN vectorKnowledgeBase :
       vectorKnowledgeBase[i].id \in NodeIds(knowledgeGraphMap)
  /\ \A i, j \in DOMAIN vectorKnowledgeBase :
       vectorKnowledgeBase[i].id = vectorKnowledgeBase[j].id => i = j

====
